---- MODULE Spec2Model ----
(***************************************************************************)
(* A model of the PostgreSQL-to-DBML conversion pipeline:                  *)
(*   SQLParser.parse_sql_dump            src/src/parser/sql_parser.py      *)
(*   SchemaExtractor.extract_schema_info src/src/parser/schema_extractor.py*)
(*   TypeMapper.transform_types          src/src/transformer/type_mapper.py*)
(*   ConstraintHandler.process_constraints                                 *)
(*                               src/src/transformer/constraint_handler.py *)
(*   RelationshipBuilder.build_relationships                               *)
(*                               src/src/generator/relationship_builder.py *)
(*                                                                         *)
(* Text is modelled by what the code reads from it.  A type string is a    *)
(* sequence of tokens (a word, "[]", "(n)", a double quote, a space).  A   *)
(* fragment of a CREATE TABLE body is a record of the pieces the parser's  *)
(* patterns extract from it: the text it starts with, the constraint name  *)
(* and body, the type text, the keywords found in it and the column lists. *)
(***************************************************************************)
EXTENDS Integers, Sequences, FiniteSets, TLC

VARIABLES
    cleaner,  \* the SQLCleaner instance: removed_statements, line_mapping
    parser,   \* the SQLParser instance: its seven accumulator lists
    mapper,   \* the TypeMapper instance: transformations_applied, warnings_generated
    handler,  \* the ConstraintHandler instance: dropped/modified/warnings
    builder,  \* the RelationshipBuilder instance: built/skipped/warnings
    input,    \* the argument of the last call, as it was when the call was made
    doc,      \* the value the last call returned
    pc,       \* the last operation that ran
    hist,     \* the operations run in this conversion, in order
    calls,    \* how many conversions these instances have served before this one
    cleaned_sql,  \* the text this conversion parses
    user_decisions,  \* the decisions map of this conversion
    schema_data   \* the schema the caller got from parse_sql_dump (or was given), as
                  \* it is now: the stages change the dicts it shares with their result

vars == <<cleaner, parser, mapper, handler, builder, input, doc, pc, hist, calls,
          cleaned_sql, user_decisions, schema_data>>

----------------------------------------------------------------------------
(* Bounds *)

MaxStmts == 3        \* statements in a dump
MaxCalls == 1        \* earlier conversions an instance may have served
MaxReuseStmts == 1   \* statements in a dump given to an instance that is used again
MaxTypeCols == 2     \* columns of a table given to the type mapper
MaxRels == 2         \* candidate relationships given to the builder
MaxTableCons == 2    \* constraints of a table given to the constraint handler
MaxStandalone == 1   \* standalone constraints given to the constraint handler
MaxLines == 2        \* lines of a raw dump given to the cleaner
MaxDeclaredCols == 2 \* columns of the table of a dump taken through the whole flow
MaxColumnStmts == 3  \* statements of a dump of CREATE TABLE and ADD COLUMN statements
MaxDefinitions == 2  \* column and constraint definitions in the body of a CREATE TABLE text

----------------------------------------------------------------------------
(* Generic helpers *)

Range(s) == {s[i] : i \in 1..Len(s)}

None == "None"

\* a parameter list in parentheses, as one token
IsParams(w) == w \in {"(255)", "(10,2)", "(5)"}

\* str.replace('[]', '')
RECURSIVE RemoveBrackets(_)
RemoveBrackets(t) ==
    IF t = <<>> THEN <<>>
    ELSE (IF Head(t) = "[]" THEN <<>> ELSE <<Head(t)>>) \o RemoveBrackets(Tail(t))

----------------------------------------------------------------------------
(* SQLParser *)

\* __init__: seven empty lists
SQLParser_init ==
    [tables |-> <<>>, relationships |-> <<>>, constraints |-> <<>>, indexes |-> <<>>,
     sequences |-> <<>>, enums |-> <<>>, parsing_errors |-> <<>>]

\* the keywords a fragment is tested against with startswith
ConstraintKeywords == {"CONSTRAINT", "PRIMARY KEY", "FOREIGN KEY", "UNIQUE", "CHECK", "EXCLUDE"}
InlineConstraintKeywords == {"PRIMARY KEY", "FOREIGN KEY", "UNIQUE", "CHECK"}

\* remaining.split()[0]: the type text up to its first whitespace
RECURSIVE FirstWord(_)
FirstWord(t) ==
    IF t = <<>> \/ Head(t) = " " THEN <<>> ELSE <<Head(t)>> \o FirstWord(Tail(t))

\* the text from its first token that is no blank
RECURSIVE AfterBlanks(_)
AfterBlanks(t) == IF t # <<>> /\ Head(t) = " " THEN AfterBlanks(Tail(t)) ELSE t

\* re.search(r'DEFAULT\s+([^,\s]+(?:\([^)]*\))?)', column_def, re.IGNORECASE):
\* the text after the keyword and its blanks, up to the next blank; None
\* when the definition has no such keyword
RECURSIVE DefaultValue(_)
DefaultValue(t) ==
    IF t = <<>> THEN None
    ELSE IF /\ Head(t) \in {"DEFAULT", "default"}
            /\ Len(t) >= 2 /\ t[2] = " "
            /\ AfterBlanks(Tail(t)) # <<>>
    THEN FirstWord(AfterBlanks(Tail(t)))
    ELSE DefaultValue(Tail(t))

\* _parse_column_definition, as a list of zero or one column: nothing for a
\* fragment without a type or with a partition clause; else name, first word
\* of the type text, and the flags found by substring search in the fragment
ParseColumnDefinition(frag) ==
    IF FirstWord(frag.typ) = <<>> \/ "FOR VALUES" \in frag.words
    THEN <<>>
    ELSE <<[column_name |-> frag.head,
          data_type |-> FirstWord(frag.typ),
          is_nullable |-> ("NOT NULL" \notin frag.words),
          default_value |-> DefaultValue(frag.typ),
          constraints |-> frag.words \cap {"NOT NULL", "PRIMARY KEY", "UNIQUE"},
          is_primary_key |-> FALSE,
          is_unique |-> FALSE]>>

\* _extract_columns: fragments that start with a constraint keyword are
\* skipped, every other fragment is parsed as a column definition
RECURSIVE ExtractColumns(_)
ExtractColumns(frags) ==
    IF frags = <<>> THEN <<>>
    ELSE LET f == Head(frags)
         IN  (IF f.head \in ConstraintKeywords THEN <<>> ELSE ParseColumnDefinition(f))
             \o ExtractColumns(Tail(frags))

\* the constraint record shared by all constraint types; the two actions are
\* None (what dict.get gives) unless a foreign key declares them
Constraint(name, type, table, cols, rtable, rcols, definition) ==
    [constraint_name |-> name, constraint_type |-> type, table_name |-> table,
     columns |-> cols, referenced_table |-> rtable, referenced_columns |-> rcols,
     on_delete_action |-> None, on_update_action |-> None,
     definition |-> definition]

\* the relationship registered by _parse_foreign_key_constraint, for a
\* foreign key that declares no action
Relationship(name, table, cols, rtable, rcols) ==
    [source_table |-> table, source_columns |-> cols, target_table |-> rtable,
     target_columns |-> rcols, relationship_type |-> "many-to-one",
     on_delete_action |-> None, on_update_action |-> None,
     constraint_name |-> name]

\* the referential actions the two patterns of _parse_foreign_key_constraint accept
ReferentialActions == {"CASCADE", "RESTRICT", "SET NULL", "SET DEFAULT", "NO ACTION"}

\* re.search(r'ON\s+DELETE\s+(...)') and re.search(r'ON\s+UPDATE\s+(...)') on
\* the constraint body: the action declared, None without one
DeclaredAction(frag, event) ==
    IF \E a \in ReferentialActions : <<event, a>> \in frag.actions
    THEN CHOOSE a \in ReferentialActions : <<event, a>> \in frag.actions
    ELSE None

\* the constraint definition text: the body keyword and the options in it
Definition(frag) ==
    <<frag.ctext>> \o (IF "DEFERRABLE" \in frag.words THEN <<"DEFERRABLE">> ELSE <<>>)

\* _parse_constraint_body with _parse_foreign_key_constraint, as a list of zero
\* or one constraint: nothing when the body is no PRIMARY KEY / FOREIGN KEY ...
\* REFERENCES / UNIQUE / CHECK
ParseConstraintBody(frag, table_name, constraint_name) ==
    CASE frag.ctext = "PRIMARY KEY" ->
            <<Constraint(constraint_name, "p", table_name, frag.cols, "", <<>>, Definition(frag))>>
      [] frag.ctext = "FOREIGN KEY" ->
            IF frag.cols = <<>> \/ frag.ref_table = "" \/ frag.ref_cols = <<>>
            THEN <<>>
            ELSE <<[Constraint(constraint_name, "f", table_name, frag.cols,
                               frag.ref_table, frag.ref_cols, Definition(frag))
                       EXCEPT !.on_delete_action = DeclaredAction(frag, "ON DELETE"),
                              !.on_update_action = DeclaredAction(frag, "ON UPDATE")]>>
      [] frag.ctext = "UNIQUE" ->
            <<Constraint(constraint_name, "u", table_name, frag.cols, "", <<>>, Definition(frag))>>
      [] frag.ctext = "CHECK" ->
            <<Constraint(constraint_name, "c", table_name, <<>>, "", <<>>, Definition(frag))>>
      [] OTHER -> <<>>

\* the name a fragment's constraint gets: CONSTRAINT <name>, or none inline
FragConstraintName(frag) == IF frag.head = "CONSTRAINT" THEN frag.cname ELSE None

\* _extract_table_constraints: only fragments that START with CONSTRAINT,
\* PRIMARY KEY, FOREIGN KEY, UNIQUE or CHECK give a constraint
RECURSIVE ExtractTableConstraints(_, _)
ExtractTableConstraints(frags, table_name) ==
    IF frags = <<>> THEN <<>>
    ELSE LET f == Head(frags)
         IN  (IF f.head = "CONSTRAINT" \/ f.head \in InlineConstraintKeywords
              THEN ParseConstraintBody(f, table_name, FragConstraintName(f))
              ELSE <<>>)
             \o ExtractTableConstraints(Tail(frags), table_name)

\* the relationships _parse_foreign_key_constraint appends while the table
\* constraints of one statement are extracted
RECURSIVE ConstraintRelationships(_)
ConstraintRelationships(cons) ==
    IF cons = <<>> THEN <<>>
    ELSE LET c == Head(cons)
         IN  (IF c.constraint_type = "f"
              THEN <<[Relationship(c.constraint_name, c.table_name, c.columns,
                                   c.referenced_table, c.referenced_columns)
                         EXCEPT !.on_delete_action = c.on_delete_action,
                                !.on_update_action = c.on_update_action]>>
              ELSE <<>>)
             \o ConstraintRelationships(Tail(cons))

TableNames(tables) == {tables[i].table_name : i \in 1..Len(tables)}

\* _parse_create_table with the duplicate check left out
ParseCreateTable_no_duplicate_check(p, stmt) ==
    IF stmt.name = "" THEN p
    ELSE LET table_constraints == ExtractTableConstraints(stmt.frags, stmt.name)
         IN  [p EXCEPT
                !.relationships = @ \o ConstraintRelationships(table_constraints),
                !.tables = Append(@, [table_name |-> stmt.name,
                                      columns |-> IF stmt.partition THEN <<>>
                                                  ELSE ExtractColumns(stmt.frags),
                                      constraints |-> table_constraints])]

\* _parse_create_table: a PARTITION OF table gets no columns; the table is
\* appended only if its name is new; the relationships of its foreign keys
\* were appended while its constraints were extracted
ParseCreateTable(p, stmt) ==
    IF stmt.name = "" THEN p
    ELSE LET columns == IF stmt.partition THEN <<>> ELSE ExtractColumns(stmt.frags)
             table_constraints == ExtractTableConstraints(stmt.frags, stmt.name)
             table_info == [table_name |-> stmt.name, columns |-> columns,
                            constraints |-> table_constraints]
         IN  [p EXCEPT
                !.relationships = @ \o ConstraintRelationships(table_constraints),
                !.tables = IF stmt.name \in TableNames(p.tables) THEN @
                           ELSE Append(@, table_info)]

ErrorRecord(stmt, context) == [statement |-> stmt.id, context |-> context]

\* _extract_create_table_statements: every CREATE TABLE ...; match is parsed
\* on its own; an exception is recorded and the loop goes on
RECURSIVE ExtractCreateTableStatements(_, _)
ExtractCreateTableStatements(p, dump) ==
    IF dump = <<>> THEN p
    ELSE LET s == Head(dump)
             q == IF s.head # "CREATE TABLE" THEN p
                  ELSE IF s.fault # "none"
                       THEN [p EXCEPT !.parsing_errors =
                                Append(@, ErrorRecord(s, "CREATE TABLE parsing failed"))]
                       ELSE ParseCreateTable(p, s)
         IN  ExtractCreateTableStatements(q, Tail(dump))

\* _parse_add_column: the parsed column is appended to the first table of
\* that name unless a column of that name is there already
RECURSIVE AddColumnToTables(_, _, _)
AddColumnToTables(tables, table_name, col) ==
    IF tables = <<>> THEN <<>>
    ELSE LET t == Head(tables)
         IN  IF t.table_name = table_name
             THEN <<IF \E i \in 1..Len(t.columns) : t.columns[i].column_name = col.column_name
                    THEN t
                    ELSE [t EXCEPT !.columns = Append(@, col)]>> \o Tail(tables)
             ELSE <<t>> \o AddColumnToTables(Tail(tables), table_name, col)

ParseAddColumn(p, stmt) ==
    LET parsed == ParseColumnDefinition(stmt.frags[1])
    IN  IF parsed = <<>> THEN p
        ELSE [p EXCEPT !.tables = AddColumnToTables(@, stmt.name, parsed[1])]

\* _parse_add_constraint: the constraint goes to the standalone list; a
\* foreign key also registers its relationship
ParseAddConstraint(p, stmt) ==
    LET f == stmt.frags[1]
        cons == ParseConstraintBody(f, stmt.name, f.cname)
    IN  [p EXCEPT !.constraints = @ \o cons,
                  !.relationships = @ \o ConstraintRelationships(cons)]

\* _parse_alter_table
ParseAlterTable(p, stmt) ==
    IF stmt.name = "" THEN p
    ELSE LET q == IF stmt.clause = "ADD COLUMN" THEN ParseAddColumn(p, stmt) ELSE p
         IN  IF stmt.clause = "ADD CONSTRAINT" THEN ParseAddConstraint(q, stmt) ELSE q

\* _parse_create_index
ParseCreateIndex(p, stmt) ==
    [p EXCEPT !.indexes = Append(@, [index_name |-> stmt.name, table_name |-> stmt.on])]

\* _parse_create_sequence
ParseCreateSequence(p, stmt) ==
    [p EXCEPT !.sequences = Append(@, [sequence_name |-> stmt.name])]

\* _parse_create_enum
ParseCreateEnum(p, stmt) ==
    [p EXCEPT !.enums = Append(@, [enum_name |-> stmt.name])]

\* _parse_statement: CREATE TABLE is skipped here; the other kinds are
\* dispatched on how the statement starts; an exception raised by a handler is
\* recorded
ParseStatement(p, stmt) ==
    IF stmt.head = "CREATE TABLE" THEN p
    ELSE IF stmt.head \notin {"ALTER TABLE", "CREATE INDEX", "CREATE SEQUENCE", "CREATE TYPE"}
    THEN p
    ELSE IF stmt.fault = "handler"
    THEN [p EXCEPT !.parsing_errors = Append(@, ErrorRecord(stmt, "Statement parsing failed"))]
    ELSE CASE stmt.head = "ALTER TABLE" -> ParseAlterTable(p, stmt)
           [] stmt.head = "CREATE INDEX" -> ParseCreateIndex(p, stmt)
           [] stmt.head = "CREATE SEQUENCE" -> ParseCreateSequence(p, stmt)
           [] stmt.head = "CREATE TYPE" -> ParseCreateEnum(p, stmt)

RECURSIVE ParseStatements(_, _)
ParseStatements(p, dump) ==
    IF dump = <<>> THEN p ELSE ParseStatements(ParseStatement(p, Head(dump)), Tail(dump))

\* sqlparse.parse(sql_content) raises when the tokenizer rejects any
\* statement of the text
SqlparseRaises(dump) == \E i \in 1..Len(dump) : dump[i].fault = "tokenizer"

\* parse_sql_dump: the CREATE TABLE pass, then the whole text is split by
\* sqlparse and every statement dispatched; an exception that escapes is
\* recorded by the outer handler; the instance's lists are returned
ParseSqlDump(p, dump) ==
    LET p1 == ExtractCreateTableStatements(p, dump)
    IN  IF SqlparseRaises(dump)
        THEN [p1 EXCEPT !.parsing_errors =
                 Append(@, [statement |-> "", context |-> "SQL parsing failed"])]
        ELSE ParseStatements(p1, dump)

----------------------------------------------------------------------------
(* SchemaExtractor *)

\* SchemaExtractor._is_array_type: '[]' in data_type
ExtractorIsArrayType(data_type) == "[]" \in Range(data_type)

\* the text before the first parameter list: str.split('(')[0]
RECURSIVE BeforeParams(_)
BeforeParams(t) ==
    IF t = <<>> \/ IsParams(Head(t)) THEN <<>> ELSE <<Head(t)>> \o BeforeParams(Tail(t))

\* _extract_base_type: brackets removed, then the parameters; the data type
\* is one word, so strip() finds no blank to remove
ExtractBaseType(data_type) == BeforeParams(RemoveBrackets(data_type))

\* _organize_columns giving the columns in reverse order
OrganizeColumns_reversed(columns) ==
    [i \in 1..Len(columns) |->
        [is_array_type |-> ExtractorIsArrayType(columns[Len(columns) + 1 - i].data_type),
         base_type |-> ExtractBaseType(columns[Len(columns) + 1 - i].data_type)] @@
        [columns[Len(columns) + 1 - i]
            EXCEPT !.is_primary_key = ("PRIMARY KEY" \in columns[Len(columns) + 1 - i].constraints),
                   !.is_unique = ("UNIQUE" \in columns[Len(columns) + 1 - i].constraints)]]

\* _organize_columns: the flags are read off the column's constraint tags,
\* the array flag and the base type off its data type
OrganizeColumns(columns) ==
    [i \in 1..Len(columns) |->
        [is_array_type |-> ExtractorIsArrayType(columns[i].data_type),
         base_type |-> ExtractBaseType(columns[i].data_type)] @@
        [columns[i] EXCEPT !.is_primary_key = ("PRIMARY KEY" \in columns[i].constraints),
                           !.is_unique = ("UNIQUE" \in columns[i].constraints)]]

\* _organize_tables skipping the tables that have no constraint
OrganizeTables_skips_plain_tables(parsed) ==
    SelectSeq([i \in 1..Len(parsed.tables) |->
                  [table_name |-> parsed.tables[i].table_name,
                   columns |-> OrganizeColumns(parsed.tables[i].columns),
                   constraints |-> parsed.tables[i].constraints]],
              LAMBDA t : t.constraints # <<>>)

\* _organize_tables: one organized table per parsed table, in order
OrganizeTables(parsed) ==
    [i \in 1..Len(parsed.tables) |->
        [table_name |-> parsed.tables[i].table_name,
         columns |-> OrganizeColumns(parsed.tables[i].columns),
         constraints |-> parsed.tables[i].constraints]]

\* _organize_relationships: every relationship is kept, in order, with the
\* relationship_type it came with
OrganizeRelationships(parsed) == parsed.relationships

\* _organize_constraints: the constraints of every table, then the standalone
\* (ALTER TABLE) constraints, in one list
RECURSIVE TableConstraintsOf(_)
TableConstraintsOf(tables) ==
    IF tables = <<>> THEN <<>>
    ELSE Head(tables).constraints \o TableConstraintsOf(Tail(tables))

OrganizeConstraints(parsed) == TableConstraintsOf(parsed.tables) \o parsed.constraints

\* extract_schema_info
ExtractSchemaInfo(parsed) ==
    [parsed EXCEPT !.tables = OrganizeTables(parsed),
                   !.relationships = OrganizeRelationships(parsed),
                   !.constraints = OrganizeConstraints(parsed)]

----------------------------------------------------------------------------
(* TypeMapper *)

\* __init__: the two logs
TypeMapper_init == [transformations_applied |-> <<>>, warnings_generated |-> <<>>]

\* self.type_map
TypeMap ==
    [integer |-> "int4", int |-> "int4", int4 |-> "int4", bigint |-> "int8",
     int8 |-> "int8", smallint |-> "int2", int2 |-> "int2", boolean |-> "bool",
     bool |-> "bool", text |-> "text", varchar |-> "varchar", char |-> "bpchar",
     bpchar |-> "bpchar", date |-> "date", timestamp |-> "timestamp",
     timestamptz |-> "timestamptz", time |-> "time", timetz |-> "timetz",
     interval |-> "interval", json |-> "json", jsonb |-> "jsonb", uuid |-> "uuid",
     numeric |-> "numeric", decimal |-> "numeric", real |-> "float4",
     float4 |-> "float4", float8 |-> "float8", float |-> "float8",
     double |-> "float8", serial |-> "int4", bigserial |-> "int8",
     smallserial |-> "int2", inet |-> "inet", cidr |-> "cidr",
     macaddr |-> "macaddr", macaddr8 |-> "macaddr8", point |-> "point",
     line |-> "line", lseg |-> "lseg", box |-> "box", path |-> "path",
     polygon |-> "polygon", circle |-> "circle", bytea |-> "bytea",
     money |-> "money", int4range |-> "int4range", int8range |-> "int8range",
     numrange |-> "numrange", tsrange |-> "tsrange", tstzrange |-> "tstzrange",
     daterange |-> "daterange", tsvector |-> "tsvector", tsquery |-> "tsquery",
     xml |-> "xml", pg_lsn |-> "pg_lsn", bit |-> "bit", varbit |-> "varbit",
     int4multirange |-> "text", int8multirange |-> "text",
     nummultirange |-> "text", tsmultirange |-> "text",
     datemultirange |-> "text", hstore |-> "text", ltree |-> "text",
     cube |-> "text", isbn |-> "text", issn |-> "text"]

\* semantic_loss_types
SemanticLossTypes ==
    {"int4multirange", "int8multirange", "nummultirange", "tsmultirange",
     "datemultirange", "hstore", "ltree", "cube", "isbn", "issn"}

\* the dbml types whose parameters are reattached
ParameterTypes == {"varchar", "char", "numeric", "decimal"}

\* str.lower() on one token: the upper-case spellings used in the inputs
LowerToken(w) ==
    CASE w = "INTEGER" -> "integer"
      [] w = "TEXT" -> "text"
      [] w = "Mood" -> "mood"
      [] OTHER -> w

LowerStr(t) == [i \in 1..Len(t) |-> LowerToken(t[i])]

\* the tokens that are no identifier: brackets, a parameter list, a quote, a space
IsWord(w) == w \notin {"[]", "\"", " "} /\ ~IsParams(w)

\* str.strip()
RECURSIVE LStrip(_)
LStrip(t) == IF t # <<>> /\ Head(t) = " " THEN LStrip(Tail(t)) ELSE t

RECURSIVE RStrip(_)
RStrip(t) == IF t # <<>> /\ t[Len(t)] = " " THEN RStrip(SubSeq(t, 1, Len(t) - 1)) ELSE t

Strip(t) == RStrip(LStrip(t))

\* _is_array_type: '[]' in pg_type
IsArrayType(t) == \E i \in 1..Len(t) : t[i] = "[]"

\* the re.match of _extract_type_components: an identifier, optional
\* whitespace, a parameter list.  ParamsAt is the position of the parameter
\* list, 0 when the text does not start that way
RECURSIVE SkipSpaces(_, _)
SkipSpaces(t, i) == IF i <= Len(t) /\ t[i] = " " THEN SkipSpaces(t, i + 1) ELSE i

ParamsAtPosition(t, j) == IF j <= Len(t) /\ IsParams(t[j]) THEN j ELSE 0

ParamsAt(t) == IF t # <<>> /\ IsWord(t[1]) THEN ParamsAtPosition(t, SkipSpaces(t, 2)) ELSE 0

\* _extract_type_components, first step: array notation removed
WithoutArrayNotation(pg_type) ==
    IF IsArrayType(pg_type) THEN Strip(RemoveBrackets(pg_type)) ELSE pg_type

\* _extract_type_components, second step: base type and parameters of the
\* text t whose parameter list is at j, '[]' appended again to an array's base
ComponentsAt(t, j, is_array) ==
    [base_type |-> (IF j > 0 THEN <<t[1]>> ELSE Strip(t))
                   \o (IF is_array THEN <<"[]">> ELSE <<>>),
     params |-> IF j > 0 THEN <<t[j]>> ELSE <<>>]

ComponentsOf(t, is_array) == ComponentsAt(t, ParamsAt(t), is_array)

\* _extract_type_components: (base_type, params); params is <<>> for None
ExtractTypeComponents(pg_type) ==
    ComponentsOf(WithoutArrayNotation(pg_type), IsArrayType(pg_type))

\* a type text that is one key of the type map
InTypeMap(t) == Len(t) = 1 /\ t[1] \in DOMAIN TypeMap

\* self.type_map.get(element_type.lower(), element_type)
MappedElement(element_type, lowered) ==
    IF InTypeMap(lowered) THEN <<TypeMap[lowered[1]]>> ELSE element_type

MapElement(element_type) == MappedElement(element_type, LowerStr(element_type))

\* _convert_native_array_type: the element type is mapped when it is a key of
\* the type map, and wrapped as "<element>[]" in double quotes
ConvertNativeArrayType(pg_type) ==
    <<"\"">> \o MapElement(Strip(RemoveBrackets(pg_type))) \o <<"[]", "\"">>

\* _handle_array_type
HandleArrayType(pg_type, decisions) ==
    IF decisions.ARRAY_TYPE = "text_fallback"
    THEN [type |-> <<"text">>, warnings |-> <<[kind |-> "array_flattened", pg_type |-> pg_type]>>]
    ELSE [type |-> ConvertNativeArrayType(pg_type), warnings |-> <<>>]

\* _transform_single_type, the direct mapping of a base type found in the map
DirectMapping(pg_type, key, params, dbml_type) ==
    [type |-> IF params # <<>> /\ dbml_type \in ParameterTypes
              THEN <<dbml_type>> \o params
              ELSE <<dbml_type>>,
     warnings |-> IF key \in SemanticLossTypes
                  THEN <<[kind |-> "semantic_loss", pg_type |-> pg_type]>>
                  ELSE <<>>]

\* _transform_single_type without the enum check of lines 158-165
TransformWithBase_no_enum_check(pg_type, decisions, enum_types, comp, base) ==
    IF IsArrayType(pg_type)
    THEN HandleArrayType(pg_type, decisions)
    ELSE IF InTypeMap(base)
    THEN DirectMapping(pg_type, base[1], comp.params, TypeMap[base[1]])
    ELSE [type |-> <<"text">>, warnings |-> <<[kind |-> "unknown_type", pg_type |-> pg_type]>>]

\* _transform_single_type, given the components of the type and the
\* lower-cased base type
TransformWithBase(pg_type, decisions, enum_types, comp, base) ==
    IF Len(base) = 1 /\ base[1] \in enum_types
    THEN [type |-> comp.base_type, warnings |-> <<>>]
    ELSE IF IsArrayType(pg_type)
    THEN HandleArrayType(pg_type, decisions)
    ELSE IF InTypeMap(base)
    THEN DirectMapping(pg_type, base[1], comp.params, TypeMap[base[1]])
    ELSE [type |-> <<"text">>, warnings |-> <<[kind |-> "unknown_type", pg_type |-> pg_type]>>]

TransformWithComponents(pg_type, decisions, enum_types, comp) ==
    TransformWithBase(pg_type, decisions, enum_types, comp, LowerStr(comp.base_type))

\* _transform_single_type: (dbml type, warnings)
TransformSingleType(pg_type, decisions, enum_types) ==
    TransformWithComponents(pg_type, decisions, enum_types, ExtractTypeComponents(pg_type))

\* the enum lookup built by transform_types
EnumTypes(schema) == {LowerToken(schema.enums[i].enum_name) : i \in 1..Len(schema.enums)}

\* t contains the tokens of pat, compared as they are written
HasTokens(t, pat) ==
    \E i \in 1..Len(t) : i + Len(pat) - 1 <= Len(t) /\ SubSeq(t, i, i + Len(pat) - 1) = pat

\* _get_transformation_reason
TransformationReason(original) ==
    IF IsArrayType(original) THEN "Array type syntax incompatibility"
    ELSE IF LowerStr(original) \in {<<"inet">>, <<"cidr">>, <<"macaddr">>, <<"tsvector">>, <<"xml">>}
    THEN "PostgreSQL-specific type not supported in DBML"
    ELSE IF \/ HasTokens(original, <<"with", " ", "time", " ", "zone">>)
            \/ HasTokens(original, <<"without", " ", "time", " ", "zone">>)
    THEN "Multi-word type converted to alias"
    ELSE "DBML compatibility"

\* transform_types, one column given the result r of _transform_single_type:
\* the column with its new type, and the instance with what is logged for it
ColumnTransformed(m, table_name, column, r) ==
    [column |-> [column EXCEPT !.data_type = r.type],
     mapper |-> [transformations_applied |->
                    IF column.data_type # r.type
                    THEN Append(m.transformations_applied,
                                [table |-> table_name, column |-> column.column_name,
                                 original_type |-> column.data_type,
                                 transformed_type |-> r.type,
                                 transformation_reason |->
                                     TransformationReason(column.data_type)])
                    ELSE m.transformations_applied,
                 warnings_generated |-> m.warnings_generated \o r.warnings]]

TransformColumn(m, table_name, column, decisions, enum_types) ==
    ColumnTransformed(m, table_name, column,
                      TransformSingleType(column.data_type, decisions, enum_types))

\* transform_types, the columns of one table from the k-th on
RECURSIVE TransformColumns(_, _, _, _, _, _)
ColumnsStep(m, table_name, columns, k, decisions, enum_types, r) ==
    TransformColumns(r.mapper, table_name, [columns EXCEPT ![k] = r.column],
                     k + 1, decisions, enum_types)

TransformColumns(m, table_name, columns, k, decisions, enum_types) ==
    IF k > Len(columns) THEN [columns |-> columns, mapper |-> m]
    ELSE ColumnsStep(m, table_name, columns, k, decisions, enum_types,
                     TransformColumn(m, table_name, columns[k], decisions, enum_types))

\* transform_types, the tables from the k-th on
RECURSIVE TransformTables(_, _, _, _, _)
TablesStep(tables, k, decisions, enum_types, r) ==
    TransformTables(r.mapper, [tables EXCEPT ![k].columns = r.columns],
                    k + 1, decisions, enum_types)

TransformTables(m, tables, k, decisions, enum_types) ==
    IF k > Len(tables) THEN [tables |-> tables, mapper |-> m]
    ELSE TablesStep(tables, k, decisions, enum_types,
                    TransformColumns(m, tables[k].table_name, tables[k].columns, 1,
                                     decisions, enum_types))

\* transform_types, the end: the instance's logs are attached to the schema
TypesTransformed(schema, r) ==
    [schema |-> [schema EXCEPT !.tables = r.tables,
                               !.type_transformations = r.mapper.transformations_applied,
                               !.type_warnings = r.mapper.warnings_generated],
     mapper |-> r.mapper]

\* transform_types: the transformed schema and the instance after the call
TransformTypes(m, schema, decisions) ==
    TypesTransformed(schema, TransformTables(m, schema.tables, 1, decisions, EnumTypes(schema)))

----------------------------------------------------------------------------
(* ConstraintHandler *)

\* __init__: the three logs
ConstraintHandler_init ==
    [dropped_constraints |-> <<>>, modified_constraints |-> <<>>, warnings_generated |-> <<>>]

\* _log_constraint_drop: a drop record and a warning
LogConstraintDrop(h, constraint, table_name, constraint_type) ==
    [h EXCEPT !.dropped_constraints =
                  Append(@, [constraint_name |-> constraint.constraint_name,
                             table_name |-> table_name,
                             constraint_type |-> constraint_type,
                             action |-> "DROPPED"]),
              !.warnings_generated =
                  Append(@, [kind |-> "dropped", constraint_name |-> constraint.constraint_name,
                             table_name |-> table_name])]

\* _remove_deferrable_from_definition
RECURSIVE RemoveDeferrable(_)
RemoveDeferrable(definition) ==
    IF definition = <<>> THEN <<>>
    ELSE (IF Head(definition) = "DEFERRABLE" THEN <<>> ELSE <<Head(definition)>>)
         \o RemoveDeferrable(Tail(definition))

IsDeferrable(constraint) ==
    \E i \in 1..Len(constraint.definition) : constraint.definition[i] = "DEFERRABLE"

\* _process_foreign_key_constraint: the constraint is kept; DEFERRABLE is
\* removed from its definition and logged; a composite key gets a warning
ProcessForeignKeyConstraint(h, constraint, table_name) ==
    LET h1 == IF IsDeferrable(constraint)
              THEN [h EXCEPT !.modified_constraints =
                                 Append(@, [constraint_name |-> constraint.constraint_name,
                                            table_name |-> table_name,
                                            modification_type |-> "FOREIGN_KEY_DEFERRABLE",
                                            action |-> "MODIFIED"]),
                             !.warnings_generated =
                                 Append(@, [kind |-> "modified",
                                            constraint_name |-> constraint.constraint_name,
                                            table_name |-> table_name])]
              ELSE h
        c1 == IF IsDeferrable(constraint)
              THEN [constraint EXCEPT !.definition = RemoveDeferrable(@)]
              ELSE constraint
        h2 == IF Len(c1.columns) > 1
              THEN [h1 EXCEPT !.warnings_generated =
                                  Append(@, [kind |-> "composite",
                                             constraint_name |-> constraint.constraint_name,
                                             table_name |-> table_name])]
              ELSE h1
    IN  [kept |-> <<c1>>, handler |-> h2]

\* _drop_check_constraint
DropCheckConstraint(h, constraint, table_name) ==
    [kept |-> <<>>, handler |-> LogConstraintDrop(h, constraint, table_name, "CHECK")]

\* _drop_unknown_constraint logging the drop and returning the constraint
DropUnknownConstraint_returns_constraint(h, constraint, table_name) ==
    [kept |-> <<constraint>>,
     handler |-> LogConstraintDrop(h, constraint, table_name,
                    IF constraint.definition # <<>> /\ constraint.definition[1] = "EXCLUDE"
                    THEN "EXCLUDE" ELSE "UNKNOWN")]

\* _drop_unknown_constraint: labelled EXCLUDE when the definition starts so
DropUnknownConstraint(h, constraint, table_name) ==
    [kept |-> <<>>,
     handler |-> LogConstraintDrop(h, constraint, table_name,
                    IF constraint.definition # <<>> /\ constraint.definition[1] = "EXCLUDE"
                    THEN "EXCLUDE" ELSE "UNKNOWN")]

\* _process_single_constraint: the constraint kept (a list of zero or one) and
\* the instance after it
ProcessSingleConstraint(h, constraint, table_name) ==
    CASE constraint.constraint_type = "p" -> [kept |-> <<constraint>>, handler |-> h]
      [] constraint.constraint_type = "u" -> [kept |-> <<constraint>>, handler |-> h]
      [] constraint.constraint_type = "f" -> ProcessForeignKeyConstraint(h, constraint, table_name)
      [] constraint.constraint_type = "c" -> DropCheckConstraint(h, constraint, table_name)
      [] OTHER -> DropUnknownConstraint(h, constraint, table_name)

\* _process_table_constraints: the constraints of one table, in order
RECURSIVE ProcessTableConstraints(_, _, _)
ProcessTableConstraints(h, constraints, table_name) ==
    IF constraints = <<>> THEN [kept |-> <<>>, handler |-> h]
    ELSE LET r == ProcessSingleConstraint(h, Head(constraints), table_name)
             rest == ProcessTableConstraints(r.handler, Tail(constraints), table_name)
         IN  [kept |-> r.kept \o rest.kept, handler |-> rest.handler]

\* _process_standalone_constraints: each under its own table_name
RECURSIVE ProcessStandaloneConstraints(_, _)
ProcessStandaloneConstraints(h, constraints) ==
    IF constraints = <<>> THEN [kept |-> <<>>, handler |-> h]
    ELSE LET r == ProcessSingleConstraint(h, Head(constraints), Head(constraints).table_name)
             rest == ProcessStandaloneConstraints(r.handler, Tail(constraints))
         IN  [kept |-> r.kept \o rest.kept, handler |-> rest.handler]

\* process_constraints, first loop: the tables from the k-th on
RECURSIVE ProcessTables(_, _, _)
ProcessTables(h, tables, k) ==
    IF k > Len(tables) THEN [tables |-> tables, handler |-> h]
    ELSE LET r == ProcessTableConstraints(h, tables[k].constraints, tables[k].table_name)
         IN  ProcessTables(r.handler, [tables EXCEPT ![k].constraints = r.kept], k + 1)

\* _mark_columns_as_primary_key
MarkColumnsAsPrimaryKey(tables, table_name, column_names) ==
    [i \in 1..Len(tables) |->
        IF tables[i].table_name # table_name THEN tables[i]
        ELSE [tables[i] EXCEPT !.columns =
                [j \in 1..Len(@) |->
                    IF \E n \in 1..Len(column_names) : column_names[n] = @[j].column_name
                    THEN [@[j] EXCEPT !.is_primary_key = TRUE,
                                      !.is_nullable = FALSE,
                                      !.is_unique = IF Len(column_names) = 1 THEN TRUE ELSE @]
                    ELSE @[j]]]]

\* _mark_columns_as_unique marking the columns of a constraint of any length
MarkColumnsAsUnique_any_length(tables, table_name, column_names) ==
    [i \in 1..Len(tables) |->
        IF tables[i].table_name # table_name THEN tables[i]
        ELSE [tables[i] EXCEPT !.columns =
                [j \in 1..Len(@) |->
                    IF \E n \in 1..Len(column_names) : column_names[n] = @[j].column_name
                    THEN [@[j] EXCEPT !.is_unique = TRUE]
                    ELSE @[j]]]]

\* _mark_columns_as_unique: single-column unique constraints only
MarkColumnsAsUnique(tables, table_name, column_names) ==
    [i \in 1..Len(tables) |->
        IF tables[i].table_name # table_name THEN tables[i]
        ELSE [tables[i] EXCEPT !.columns =
                [j \in 1..Len(@) |->
                    IF Len(column_names) = 1 /\ column_names[1] = @[j].column_name
                    THEN [@[j] EXCEPT !.is_unique = TRUE]
                    ELSE @[j]]]]

\* _apply_constraints_to_columns, the loop over all_constraints
RECURSIVE ApplyConstraints(_, _)
ApplyConstraints(tables, all_constraints) ==
    IF all_constraints = <<>> THEN tables
    ELSE LET c == Head(all_constraints)
             t == IF c.constraint_type = "p" /\ c.columns # <<>>
                  THEN MarkColumnsAsPrimaryKey(tables, c.table_name, c.columns)
                  ELSE IF c.constraint_type = "u" /\ c.columns # <<>>
                  THEN MarkColumnsAsUnique(tables, c.table_name, c.columns)
                  ELSE tables
         IN  ApplyConstraints(t, Tail(all_constraints))

\* _apply_constraints_to_columns: the surviving table constraints, then the
\* surviving standalone constraints
ApplyConstraintsToColumns(tables, standalone) ==
    ApplyConstraints(tables, TableConstraintsOf(tables) \o standalone)

\* process_constraints: the processed schema (with the instance's logs
\* attached) and the instance after the call
ProcessConstraints(h, schema) ==
    LET t == ProcessTables(h, schema.tables, 1)
        s == ProcessStandaloneConstraints(t.handler, schema.constraints)
    IN  [schema |-> [schema EXCEPT
                        !.tables = ApplyConstraintsToColumns(t.tables, s.kept),
                        !.constraints = s.kept,
                        !.dropped_constraints = s.handler.dropped_constraints,
                        !.modified_constraints = s.handler.modified_constraints,
                        !.constraint_warnings = s.handler.warnings_generated],
         handler |-> s.handler]

----------------------------------------------------------------------------
(* RelationshipBuilder *)

\* __init__, and the reset at the start of build_relationships
RelationshipBuilder_init ==
    [built_relationships |-> <<>>, skipped_relationships |-> <<>>, relationship_warnings |-> <<>>]

\* _create_table_lookup: the table a name resolves to; a later table of the
\* same name replaces an earlier one
RECURSIVE LookupIndex(_, _, _)
LookupIndex(tables, name, k) ==
    IF k = 0 THEN 0
    ELSE IF tables[k].table_name = name THEN k ELSE LookupIndex(tables, name, k - 1)

TableLookup(tables, name) == LookupIndex(tables, name, Len(tables))

ColumnNames(table) == {table.columns[i].column_name : i \in 1..Len(table.columns)}

\* the column a name resolves to in the lookup's column dict: the last of
\* that name
RECURSIVE ColumnIndex(_, _, _)
ColumnIndex(columns, name, k) ==
    IF k = 0 THEN 0
    ELSE IF columns[k].column_name = name THEN k ELSE ColumnIndex(columns, name, k - 1)

\* _skip_relationship that only warns
SkipRelationship_warning_only(b, relationship, skip_type) ==
    [b EXCEPT !.relationship_warnings =
                  Append(@, [kind |-> "skipped", source_table |-> relationship.source_table,
                             target_table |-> relationship.target_table])]

\* _skip_relationship: a skip record and a warning
SkipRelationship(b, relationship, skip_type) ==
    [b EXCEPT !.skipped_relationships =
                  Append(@, [relationship |-> relationship, skip_type |-> skip_type,
                             source_table |-> relationship.source_table,
                             target_table |-> relationship.target_table]),
              !.relationship_warnings =
                  Append(@, [kind |-> "skipped", source_table |-> relationship.source_table,
                             target_table |-> relationship.target_table])]

GenerateWarning(b, kind, relationship) ==
    [b EXCEPT !.relationship_warnings =
                  Append(@, [kind |-> kind, source_table |-> relationship.source_table,
                             target_table |-> relationship.target_table])]

\* columns of the constraints of one type, as a set
PkColumns(table) ==
    UNION {Range(table.constraints[i].columns) :
              i \in {n \in 1..Len(table.constraints) : table.constraints[n].constraint_type = "p"}}

\* _columns_are_unique
ColumnsAreUnique(columns, table) ==
    \/ Range(columns) = PkColumns(table)
    \/ \E i \in 1..Len(table.constraints) :
          /\ table.constraints[i].constraint_type = "u"
          /\ Range(table.constraints[i].columns) = Range(columns)
    \/ /\ Len(columns) = 1
       /\ LET k == ColumnIndex(table.columns, columns[1], Len(table.columns))
          IN  k > 0 /\ (table.columns[k].is_unique \/ table.columns[k].is_primary_key)

\* _determine_relationship_type looking at the target columns only
DetermineRelationshipType_target_only(b, relationship, source_table, target_table) ==
    IF ColumnsAreUnique(relationship.target_columns, target_table)
    THEN [type |-> "one-to-one", builder |-> b]
    ELSE [type |-> "many-to-one", builder |-> GenerateWarning(b, "unusual", relationship)]

\* _determine_relationship_type: the type, and the warning for a target that
\* is not unique
DetermineRelationshipType(b, relationship, source_table, target_table) ==
    LET source_is_unique == ColumnsAreUnique(relationship.source_columns, source_table)
        target_is_unique == ColumnsAreUnique(relationship.target_columns, target_table)
    IN  IF source_is_unique /\ target_is_unique
        THEN [type |-> "one-to-one", builder |-> b]
        ELSE IF target_is_unique
        THEN [type |-> "many-to-one", builder |-> b]
        ELSE [type |-> "many-to-one", builder |-> GenerateWarning(b, "unusual", relationship)]

\* the column check reading the relationship's own columns as the table's
MissingColumns_never(columns, table) == {c \in Range(columns) : c \notin Range(columns)}

\* _build_single_relationship, the two list comprehensions: the columns of a
\* relationship side that the table of that side does not have
MissingColumns(columns, table) == {c \in Range(columns) : c \notin ColumnNames(table)}

\* _build_single_relationship: the relationship built (a list of zero or one)
\* and the instance after it
BuildSingleRelationship(b, relationship, tables) ==
    LET si == TableLookup(tables, relationship.source_table)
        ti == TableLookup(tables, relationship.target_table)
    IN  IF si = 0
        THEN [built |-> <<>>, builder |-> SkipRelationship(b, relationship, "MISSING_SOURCE_TABLE")]
        ELSE IF ti = 0
        THEN [built |-> <<>>, builder |-> SkipRelationship(b, relationship, "MISSING_TARGET_TABLE")]
        ELSE IF MissingColumns(relationship.source_columns, tables[si]) # {}
        THEN [built |-> <<>>, builder |-> SkipRelationship(b, relationship, "MISSING_SOURCE_COLUMNS")]
        ELSE IF MissingColumns(relationship.target_columns, tables[ti]) # {}
        THEN [built |-> <<>>, builder |-> SkipRelationship(b, relationship, "MISSING_TARGET_COLUMNS")]
        ELSE IF Len(relationship.source_columns) # Len(relationship.target_columns)
        THEN [built |-> <<>>, builder |-> SkipRelationship(b, relationship, "COLUMN_COUNT_MISMATCH")]
        ELSE LET d == DetermineRelationshipType(b, relationship, tables[si], tables[ti])
                 built_rel == [source_table |-> relationship.source_table,
                               source_columns |-> relationship.source_columns,
                               target_table |-> relationship.target_table,
                               target_columns |-> relationship.target_columns,
                               relationship_type |-> d.type,
                               constraint_name |-> relationship.constraint_name,
                               on_delete_action |-> relationship.on_delete_action,
                               on_update_action |-> relationship.on_update_action,
                               is_composite |-> Len(relationship.source_columns) > 1,
                               is_self_referencing |->
                                   relationship.source_table = relationship.target_table]
                 b1 == IF built_rel.is_composite
                       THEN GenerateWarning(d.builder, "composite", relationship)
                       ELSE d.builder
                 b2 == IF built_rel.is_self_referencing
                       THEN GenerateWarning(b1, "self_referencing", relationship)
                       ELSE b1
             IN  [built |-> <<built_rel>>, builder |-> b2]

\* build_relationships, the loop over the candidates
RECURSIVE BuildAll(_, _, _)
BuildAll(b, relationships, tables) ==
    IF relationships = <<>> THEN b
    ELSE LET r == BuildSingleRelationship(b, Head(relationships), tables)
         IN  BuildAll([r.builder EXCEPT !.built_relationships = @ \o r.built],
                      Tail(relationships), tables)

\* _create_relationship_signature made of the two table names only
RelationshipSignature_tables_only(rel) == <<rel.source_table, rel.target_table>>

\* _create_relationship_signature
RelationshipSignature(rel) ==
    <<rel.source_table, rel.source_columns, rel.target_table, rel.target_columns>>

\* _deduplicate_relationships: the first relationship of a signature is kept,
\* each later one is removed with a warning
RECURSIVE Deduplicate(_, _, _)
Deduplicate(b, rels, seen) ==
    IF rels = <<>> THEN [b EXCEPT !.built_relationships = <<>>]
    ELSE LET rel == Head(rels)
             sig == RelationshipSignature(rel)
         IN  IF sig \notin seen
             THEN LET rest == Deduplicate(b, Tail(rels), seen \cup {sig})
                  IN  [rest EXCEPT !.built_relationships = <<rel>> \o @]
             ELSE Deduplicate(GenerateWarning(b, "duplicate", rel), Tail(rels), seen)

\* build_relationships: the three lists are reset, every candidate is
\* validated, duplicates are removed; the instance after the call, whose
\* built_relationships is the list returned
BuildRelationships(b, relationships, tables) ==
    LET b1 == BuildAll(RelationshipBuilder_init, relationships, tables)
    IN  Deduplicate(b1, b1.built_relationships, {})

----------------------------------------------------------------------------
(* SQLCleaner *)

\* SQL text is a sequence of tokens: words, literals, punctuation, " " for a
\* blank and "\n" for a line break.  A line is the tokens between two breaks.

\* a new SQLCleaner: nothing removed, no line mapped; line_mapping[k] is the
\* original number of the k-th line kept
SQLCleaner_init == [removed_statements |-> <<>>, line_mapping |-> <<>>]

\* str.upper() on one token: the lower-case spellings used in the inputs
UpperToken(w) ==
    CASE w = "default" -> "DEFAULT"
      [] w = "check" -> "CHECK"
      [] OTHER -> w

\* the upper-cased text t continues at position i with the tokens of pat
MatchesAt(t, i, pat) ==
    /\ i + Len(pat) - 1 <= Len(t)
    /\ \A k \in 1..Len(pat) : UpperToken(t[i + k - 1]) = pat[k]

\* pat in t.upper()
ContainsTokens(t, pat) == \E i \in 1..Len(t) : MatchesAt(t, i, pat)

\* _identify_statement_type on the stripped line s; "KEEP" for a line that
\* _should_remove_line does not remove
RemovalType(s) ==
    IF s = <<>> \/ s[1] = "--" THEN "KEEP"
    ELSE IF s[1] = "\\." THEN "PSQL_COMMAND"
    ELSE IF MatchesAt(s, 1, <<"SET", " ">>) THEN "SET"
    ELSE IF MatchesAt(s, 1, <<"SELECT", " ">>) THEN "SELECT"
    ELSE IF MatchesAt(s, 1, <<"COMMENT", " ", "ON", " ">>) THEN "COMMENT"
    ELSE IF MatchesAt(s, 1, <<"COPY", " ">>) THEN "COPY"
    ELSE IF MatchesAt(s, 1, <<"GRANT", " ">>) \/ MatchesAt(s, 1, <<"REVOKE", " ">>)
    THEN "PERMISSION"
    ELSE IF ContainsTokens(s, <<"OWNER", " ", "TO">>) THEN "OWNERSHIP"
    ELSE IF ContainsTokens(s, <<"OWNED", " ", "BY">>) THEN "SEQUENCE_OWNERSHIP"
    ELSE IF /\ MatchesAt(s, 1, <<"ALTER", " ", "TABLE", " ", "ONLY", " ">>)
            /\ ContainsTokens(s, <<"SET", " ", "DEFAULT">>)
    THEN "COLUMN_DEFAULT"
    ELSE "KEEP"

\* _should_remove_line
ShouldRemoveLine(line) == RemovalType(Strip(line)) # "KEEP"

\* _get_removal_reason
RemovalReason(statement_type) ==
    CASE statement_type = "PSQL_COMMAND" -> "PostgreSQL client commands not supported in DBML"
      [] statement_type = "SET" -> "Configuration statements not supported in DBML"
      [] statement_type = "SELECT" -> "Query statements not supported in DBML"
      [] statement_type = "COMMENT" -> "Comment statements cause parser errors"
      [] statement_type = "COPY" -> "Data import statements not supported"
      [] statement_type = "PERMISSION" -> "Permission statements not represented in DBML"
      [] statement_type = "OWNERSHIP" -> "Ownership statements not represented in DBML"
      [] statement_type = "SEQUENCE_OWNERSHIP" -> "Sequence ownership not represented in DBML"
      [] statement_type = "COLUMN_DEFAULT" -> "Column defaults handled in CREATE TABLE"
      [] OTHER -> "Statement incompatible with DBML parser"

\* _log_removal: one record for a removed line
LogRemoval(c, line, line_number, statement_type) ==
    [c EXCEPT !.removed_statements =
        Append(@, [line_number |-> line_number, statement_type |-> statement_type,
                   content |-> Strip(line), reason |-> RemovalReason(statement_type)])]

\* the negative integer literals -\d+ of the inputs, and each in single quotes
NegativeIntegers == {"-5", "-1"}
Quoted(w) == IF w = "-5" THEN "'-5'" ELSE "'-1'"

\* re.sub(r'DEFAULT\s+(-\d+)', r"DEFAULT '\1'", line, flags=re.IGNORECASE):
\* the keyword, at least one blank and the literal become DEFAULT '<literal>'
RECURSIVE FixNegativeDefaults(_)
FixNegativeDefaults(t) ==
    IF t = <<>> THEN <<>>
    ELSE IF /\ UpperToken(Head(t)) = "DEFAULT"
            /\ SkipSpaces(t, 2) > 2
            /\ SkipSpaces(t, 2) <= Len(t)
            /\ t[SkipSpaces(t, 2)] \in NegativeIntegers
    THEN <<"DEFAULT", " ", Quoted(t[SkipSpaces(t, 2)])>>
         \o FixNegativeDefaults(SubSeq(t, SkipSpaces(t, 2) + 1, Len(t)))
    ELSE <<Head(t)>> \o FixNegativeDefaults(Tail(t))

\* re.sub(rf'\b{old}\b', new, line, flags=re.IGNORECASE) for one multi-word type
RECURSIVE ReplaceType(_, _, _)
ReplaceType(t, old, new) ==
    IF t = <<>> THEN <<>>
    ELSE IF Len(t) >= Len(old) /\ LowerStr(SubSeq(t, 1, Len(old))) = old
    THEN <<new>> \o ReplaceType(SubSeq(t, Len(old) + 1, Len(t)), old, new)
    ELSE <<Head(t)>> \o ReplaceType(Tail(t), old, new)

\* type_replacements, in the order of the dictionary
TypeReplacements ==
    <<[old |-> <<"timestamp", " ", "with", " ", "time", " ", "zone">>, new |-> "timestamptz"],
      [old |-> <<"timestamp", " ", "without", " ", "time", " ", "zone">>, new |-> "timestamp"],
      [old |-> <<"time", " ", "with", " ", "time", " ", "zone">>, new |-> "timetz"],
      [old |-> <<"time", " ", "without", " ", "time", " ", "zone">>, new |-> "time"],
      [old |-> <<"double", " ", "precision">>, new |-> "float8"],
      [old |-> <<"character", " ", "varying">>, new |-> "varchar"]>>

RECURSIVE ConvertMultiWordTypes(_, _)
ConvertMultiWordTypes(t, k) ==
    IF k > Len(TypeReplacements) THEN t
    ELSE ConvertMultiWordTypes(ReplaceType(t, TypeReplacements[k].old, TypeReplacements[k].new),
                               k + 1)

\* the tokens made of word characters only (\w+)
IsIdentifier(w) ==
    /\ w \notin {"[]", "\"", " ", "\n", "(", ")", ",", ";", "$$", "--", "\\.", "'-5'", "'-1'",
                 "-5", "-1", ".5", ">", "gen_random_uuid()",
                 "<backtick>uuid_generate_v4()<backtick>"}
    /\ ~IsParams(w)

\* the array quoting of _clean_line: a word directly followed by brackets is
\* put in double quotes, with a space before the brackets
RECURSIVE QuoteArrayTypes(_)
QuoteArrayTypes(t) ==
    IF t = <<>> THEN <<>>
    ELSE IF Len(t) >= 2 /\ IsIdentifier(t[1]) /\ t[2] = "[]"
    THEN <<"\"", t[1], " ", "[]", "\"">> \o QuoteArrayTypes(SubSeq(t, 3, Len(t)))
    ELSE <<Head(t)>> \o QuoteArrayTypes(Tail(t))

\* str.replace of gen_random_uuid() by uuid_generate_v4() between backticks
ReplaceUuid(t) ==
    [i \in 1..Len(t) |-> IF t[i] = "gen_random_uuid()" THEN "<backtick>uuid_generate_v4()<backtick>" ELSE t[i]]

\* _clean_line
CleanLine(line) ==
    QuoteArrayTypes(ConvertMultiWordTypes(ReplaceUuid(FixNegativeDefaults(line)), 1))

\* the position of the first token tok of t at or after i, 0 when there is none
RECURSIVE Find(_, _, _)
Find(t, tok, i) ==
    IF i > Len(t) THEN 0 ELSE IF t[i] = tok THEN i ELSE Find(t, tok, i + 1)

\* str.split('\n')
RECURSIVE SplitLines(_)
SplitLines(t) ==
    IF Find(t, "\n", 1) = 0 THEN <<t>>
    ELSE <<SubSeq(t, 1, Find(t, "\n", 1) - 1)>>
         \o SplitLines(SubSeq(t, Find(t, "\n", 1) + 1, Len(t)))

\* '\n'.join(lines)
RECURSIVE JoinLines(_)
JoinLines(lines) ==
    IF lines = <<>> THEN <<>>
    ELSE IF Len(lines) = 1 THEN lines[1]
    ELSE lines[1] \o <<"\n">> \o JoinLines(Tail(lines))

\* self.line_mapping[k] = original_line
SetLineMapping(mapping, k, original_line) ==
    IF k <= Len(mapping) THEN [mapping EXCEPT ![k] = original_line]
    ELSE Append(mapping, original_line)

\* clean_dump, the loop over the lines from the i-th on: a line to remove is
\* logged, any other line is mapped to its original number and cleaned
RECURSIVE CleanLines(_, _, _, _)
CleanLines(c, lines, i, cleaned_lines) ==
    IF i > Len(lines) THEN [cleaned_lines |-> cleaned_lines, cleaner |-> c]
    ELSE IF ShouldRemoveLine(lines[i])
    THEN CleanLines(LogRemoval(c, lines[i], i, RemovalType(Strip(lines[i]))),
                    lines, i + 1, cleaned_lines)
    ELSE CleanLines([c EXCEPT !.line_mapping = SetLineMapping(@, Len(cleaned_lines) + 1, i)],
                    lines, i + 1, Append(cleaned_lines, CleanLine(lines[i])))

\* \s* in a pattern applied to the whole text: blanks and line breaks
RECURSIVE SkipWhitespace(_, _)
SkipWhitespace(t, i) ==
    IF i <= Len(t) /\ t[i] \in {" ", "\n"} THEN SkipWhitespace(t, i + 1) ELSE i

\* re.sub(r'\$\$.*?\$\$', '', content, flags=re.DOTALL)
RECURSIVE RemoveDollarQuoted(_)
RemoveDollarQuoted(t) ==
    IF t = <<>> THEN <<>>
    ELSE IF Head(t) = "$$" /\ Find(t, "$$", 2) > 0
    THEN RemoveDollarQuoted(SubSeq(t, Find(t, "$$", 2) + 1, Len(t)))
    ELSE <<Head(t)>> \o RemoveDollarQuoted(Tail(t))

\* CREATE\s+(OR\s+REPLACE\s+)?(FUNCTION|PROCEDURE)\s+ at the head of t: the
\* position after the pattern, 0 when t does not start that way
AfterKeyword(t, k) ==
    IF k <= Len(t) /\ UpperToken(t[k]) \in {"FUNCTION", "PROCEDURE"}
       /\ SkipWhitespace(t, k + 1) > k + 1
    THEN SkipWhitespace(t, k + 1) ELSE 0

AfterReplace(t, b) ==
    IF b <= Len(t) /\ UpperToken(t[b]) = "REPLACE" /\ SkipWhitespace(t, b + 1) > b + 1
    THEN AfterKeyword(t, SkipWhitespace(t, b + 1)) ELSE 0

AfterCreate(t, a) ==
    IF a = 2 \/ a > Len(t) THEN 0
    ELSE IF UpperToken(t[a]) = "OR" /\ SkipWhitespace(t, a + 1) > a + 1
    THEN AfterReplace(t, SkipWhitespace(t, a + 1))
    ELSE AfterKeyword(t, a)

\* re.sub(r'CREATE\s+(OR\s+REPLACE\s+)?(FUNCTION|PROCEDURE)\s+.*?;', '', content,
\*        flags=re.DOTALL | re.IGNORECASE): removed up to the first semicolon
\* the position of the semicolon that ends a CREATE FUNCTION/PROCEDURE
\* statement at the head of t, 0 when there is no such statement
FunctionEnd(t) ==
    IF t # <<>> /\ UpperToken(Head(t)) = "CREATE" /\ AfterCreate(t, SkipWhitespace(t, 2)) > 0
    THEN Find(t, ";", AfterCreate(t, SkipWhitespace(t, 2)))
    ELSE 0

RECURSIVE RemoveCreateFunction(_)
RemoveCreateFunction(t) ==
    IF t = <<>> THEN <<>>
    ELSE IF FunctionEnd(t) > 0
    THEN RemoveCreateFunction(SubSeq(t, FunctionEnd(t) + 1, Len(t)))
    ELSE <<Head(t)>> \o RemoveCreateFunction(Tail(t))

\* CHECK\s*\([^)]*\([^)]*\)[^)]*\) at the head of t, whose first parenthesis
\* is at p: the position of the second closing parenthesis, 0 without a match
NestedCheckEnd(t, p) ==
    IF /\ t # <<>> /\ UpperToken(Head(t)) = "CHECK"
       /\ p <= Len(t) /\ t[p] = "("
       /\ Find(t, ")", p + 1) > 0
       /\ \E k \in (p + 1)..(Find(t, ")", p + 1) - 1) : t[k] = "("
    THEN Find(t, ")", Find(t, ")", p + 1) + 1)
    ELSE 0

\* re.sub(r'CHECK\s*\([^)]*\([^)]*\)[^)]*\)', '', content, flags=re.IGNORECASE)
RECURSIVE RemoveNestedCheck(_)
RemoveNestedCheck(t) ==
    IF t = <<>> THEN <<>>
    ELSE IF NestedCheckEnd(t, SkipWhitespace(t, 2)) > 0
    THEN RemoveNestedCheck(SubSeq(t, NestedCheckEnd(t, SkipWhitespace(t, 2)) + 1, Len(t)))
    ELSE <<Head(t)>> \o RemoveNestedCheck(Tail(t))

\* _remove_multiline_statements
RemoveMultilineStatements(content) ==
    RemoveNestedCheck(RemoveCreateFunction(RemoveDollarQuoted(content)))

\* clean_dump: (cleaned text, the instance after the call)
CleanDumpJoined(r) ==
    [content |-> RemoveMultilineStatements(JoinLines(r.cleaned_lines)),
     cleaner |-> r.cleaner]

CleanDump(c, sql_content) == CleanDumpJoined(CleanLines(c, SplitLines(sql_content), 1, <<>>))

----------------------------------------------------------------------------
(* Inputs *)

\* the sequences over S of length at most n
SeqsUpTo(S, n) == UNION {[1..k -> S] : k \in 0..n}

\* those without a repeated element
DistinctSeqsUpTo(S, n) ==
    {q \in SeqsUpTo(S, n) : \A i, j \in 1..Len(q) : i # j => q[i] # q[j]}

Frag(head, cname, ctext, typ, words, cols, ref_table, ref_cols) ==
    [head |-> head, cname |-> cname, ctext |-> ctext, typ |-> typ, words |-> words,
     cols |-> cols, ref_table |-> ref_table, ref_cols |-> ref_cols, actions |-> {}]

ColFrag(name, typ, words) == Frag(name, "", "", typ, words, <<>>, "", <<>>)

Stmt(id, head, name, clause, frags, fault) ==
    [id |-> id, head |-> head, name |-> name, partition |-> FALSE, clause |-> clause,
     on |-> "a", frags |-> frags, fault |-> fault]

\* CREATE TABLE a (id int PRIMARY KEY, v int CHECK (v > 0));
StmtA1 ==
    Stmt("a1", "CREATE TABLE", "a", "",
         <<ColFrag("id", <<"int">>, {"PRIMARY KEY"}),
           ColFrag("v", <<"int">>, {"CHECK"})>>, "none")

\* CREATE TABLE a (w text NOT NULL, CONSTRAINT chk_w CHECK (w <> ''),
\*                 FOREIGN KEY (w) REFERENCES ghost (id));
StmtA2 ==
    Stmt("a2", "CREATE TABLE", "a", "",
         <<ColFrag("w", <<"text">>, {"NOT NULL"}),
           Frag("CONSTRAINT", "chk_w", "CHECK", <<>>, {"CHECK"}, <<>>, "", <<>>),
           Frag("FOREIGN KEY", "", "FOREIGN KEY", <<>>, {}, <<"w">>, "ghost", <<"id">>)>>,
         "none")

\* CREATE TABLE b (id int, a_id int, UNIQUE (id),
\*                 FOREIGN KEY (a_id) REFERENCES a (id) ON DELETE CASCADE DEFERRABLE);
StmtB ==
    Stmt("b", "CREATE TABLE", "b", "",
         <<ColFrag("id", <<"int">>, {}),
           ColFrag("a_id", <<"int">>, {}),
           Frag("UNIQUE", "", "UNIQUE", <<>>, {"UNIQUE"}, <<"id">>, "", <<>>),
           [Frag("FOREIGN KEY", "", "FOREIGN KEY", <<>>, {"DEFERRABLE"},
                 <<"a_id">>, "a", <<"id">>)
               EXCEPT !.actions = {<<"ON DELETE", "CASCADE">>}]>>, "none")

\* ALTER TABLE a ADD CONSTRAINT chk2 CHECK (v < 100);
StmtAltCheck ==
    Stmt("alt_chk", "ALTER TABLE", "a", "ADD CONSTRAINT",
         <<Frag("CONSTRAINT", "chk2", "CHECK", <<>>, {"CHECK"}, <<>>, "", <<>>)>>, "none")

\* ALTER TABLE ghost ADD CONSTRAINT fk_g FOREIGN KEY (x) REFERENCES ghost2 (id);
StmtAltFk ==
    Stmt("alt_fk", "ALTER TABLE", "ghost", "ADD CONSTRAINT",
         <<Frag("CONSTRAINT", "fk_g", "FOREIGN KEY", <<>>, {}, <<"x">>, "ghost2", <<"id">>)>>,
         "none")

\* ALTER TABLE a ADD COLUMN tags text[];
StmtAltCol ==
    Stmt("alt_col", "ALTER TABLE", "a", "ADD COLUMN",
         <<ColFrag("tags", <<"text", "[]">>, {})>>, "none")

\* CREATE INDEX idx ON a (id);
StmtIndex == Stmt("idx", "CREATE INDEX", "idx", "", <<>>, "none")

\* CREATE SEQUENCE seq;
StmtSequence == Stmt("seq", "CREATE SEQUENCE", "seq", "", <<>>, "none")

\* CREATE TYPE mood AS ENUM ('happy', 'sad');
StmtEnum == Stmt("enum", "CREATE TYPE", "mood", "", <<>>, "none")

\* CREATE TABLE b (c int CHECK ((((( ... ))))));  nested too deep for sqlparse
StmtBadTable ==
    Stmt("bad_b", "CREATE TABLE", "b", "",
         <<ColFrag("c", <<"int">>, {"CHECK"})>>, "tokenizer")

\* CREATE INDEX idx2 ON b (id);  whose handler raises
StmtBadIndex == Stmt("bad_idx", "CREATE INDEX", "idx2", "", <<>>, "handler")

Statements ==
    {StmtA1, StmtA2, StmtB, StmtAltCheck, StmtAltFk, StmtAltCol, StmtIndex,
     StmtSequence, StmtEnum, StmtBadTable, StmtBadIndex}

\* the dumps: up to MaxStmts statements, each text at most once
Dumps == DistinctSeqsUpTo(Statements, MaxStmts)

\* the logs a schema has no entry for before the stage that writes them ran
NoLogs ==
    [type_transformations |-> <<>>, type_warnings |-> <<>>, dropped_constraints |-> <<>>,
     modified_constraints |-> <<>>, constraint_warnings |-> <<>>]

\* the schema document parse_sql_dump returns: the instance's lists
ParseResult(p) == p @@ NoLogs

DefaultDecisions == [ARRAY_TYPE |-> "native"]

----------------------------------------------------------------------------
(* The conversion pipeline: one action per call *)

Init ==
    /\ cleaner = SQLCleaner_init
    /\ parser = SQLParser_init
    /\ mapper = TypeMapper_init
    /\ handler = ConstraintHandler_init
    /\ builder = RelationshipBuilder_init
    /\ input = <<>>
    /\ doc = ParseResult(SQLParser_init)
    /\ pc = "init"
    /\ hist = <<>>
    /\ calls = 0
    /\ cleaned_sql = <<>>
    /\ user_decisions = DefaultDecisions
    /\ schema_data = ParseResult(SQLParser_init)

\* parser.parse_sql_dump(cleaned_sql)
ParseCalled(dump) ==
    /\ cleaned_sql' = dump
    /\ parser' = ParseSqlDump(parser, dump)
    /\ doc' = ParseResult(parser')
    /\ schema_data' = doc'
    /\ input' = dump
    /\ pc' = "parse_sql_dump"
    /\ hist' = Append(hist, "parse_sql_dump")
    /\ UNCHANGED <<cleaner, mapper, handler, builder, calls, user_decisions>>

CallParseSqlDump(dump) == pc = "init" /\ ParseCalled(dump)

\* SchemaExtractor().extract_schema_info(schema_data)
CallExtractSchemaInfo ==
    /\ pc = "parse_sql_dump"
    /\ doc' = ExtractSchemaInfo(doc)
    /\ input' = doc
    /\ pc' = "extract_schema_info"
    /\ hist' = Append(hist, "extract_schema_info")
    /\ UNCHANGED <<cleaner, parser, mapper, handler, builder, calls, cleaned_sql, user_decisions, schema_data>>

\* schema.copy() in transform_types and process_constraints copies the top
\* level only: the table and column dicts of the result are those of the
\* argument.  Unless extract_schema_info built new ones, they are also those
\* of the schema the caller holds, and those of parser.tables when the schema
\* came from parse_sql_dump
SharesTables == "extract_schema_info" \notin Range(hist)
SharesParserTables == SharesTables /\ "parse_sql_dump" \in Range(hist)

\* what the in-place updates of a stage leave in the caller's schema and in
\* the parser: the tables of the result
TablesUpdatedInPlace(r) ==
    /\ schema_data' = IF SharesTables THEN [schema_data EXCEPT !.tables = r.schema.tables]
                      ELSE schema_data
    /\ parser' = IF SharesParserTables THEN [parser EXCEPT !.tables = r.schema.tables]
                 ELSE parser

\* type_mapper.transform_types(schema, user_decisions), r what the call returns
TypesCalled(r) ==
    /\ mapper' = r.mapper
    /\ doc' = r.schema
    /\ TablesUpdatedInPlace(r)
    /\ input' = doc
    /\ pc' = "transform_types"
    /\ hist' = Append(hist, "transform_types")
    /\ UNCHANGED <<cleaner, handler, builder, calls, cleaned_sql, user_decisions>>

CallTransformTypes == TypesCalled(TransformTypes(mapper, doc, user_decisions))

\* constraint_handler.process_constraints(schema), r what the call returns
ConstraintsCalled(r) ==
    /\ handler' = r.handler
    /\ doc' = r.schema
    /\ TablesUpdatedInPlace(r)
    /\ input' = doc
    /\ pc' = "process_constraints"
    /\ hist' = Append(hist, "process_constraints")
    /\ UNCHANGED <<cleaner, mapper, builder, calls, cleaned_sql, user_decisions>>

CallProcessConstraints == ConstraintsCalled(ProcessConstraints(handler, doc))

\* relationship_builder.build_relationships(schema['relationships'], schema['tables'])
CallBuildRelationships ==
    /\ builder' = BuildRelationships(builder, doc.relationships, doc.tables)
    /\ input' = doc
    /\ pc' = "build_relationships"
    /\ hist' = Append(hist, "build_relationships")
    /\ UNCHANGED <<cleaner, parser, mapper, handler, doc, calls, cleaned_sql, user_decisions, schema_data>>

\* one conversion with fresh instances: parse, optionally extract, map the
\* types, process the constraints, build the relationships
Parse == \E dump \in Dumps : CallParseSqlDump(dump)
Extract == CallExtractSchemaInfo
MapTypes == pc \in {"parse_sql_dump", "extract_schema_info"} /\ CallTransformTypes
Constrain == pc = "transform_types" /\ CallProcessConstraints
Build == pc = "process_constraints" /\ CallBuildRelationships

Next == Parse \/ Extract \/ MapTypes \/ Constrain \/ Build

Spec == Init /\ [][Next]_vars

----------------------------------------------------------------------------
(* Instances that serve more than one conversion *)

ReuseDumps == {d \in Dumps : Len(d) <= MaxReuseStmts}

\* the same parser, type mapper and constraint handler are given the next text
NextConversion ==
    /\ pc = "process_constraints"
    /\ calls < MaxCalls
    /\ calls' = calls + 1
    /\ pc' = "init"
    /\ hist' = <<>>
    /\ input' = <<>>
    /\ doc' = ParseResult(SQLParser_init)
    /\ schema_data' = ParseResult(SQLParser_init)
    /\ cleaned_sql' = <<>>
    /\ UNCHANGED <<cleaner, parser, mapper, handler, builder, user_decisions>>

ParseReuse == \E dump \in ReuseDumps : CallParseSqlDump(dump)

NextReuse == ParseReuse \/ MapTypes \/ Constrain \/ NextConversion

SpecReuse == Init /\ [][NextReuse]_vars

----------------------------------------------------------------------------
(* TypeMapper.transform_types called directly, and called again on its result *)

Column(name, type) ==
    [column_name |-> name, data_type |-> type, is_nullable |-> TRUE, constraints |-> {},
     is_primary_key |-> FALSE, is_unique |-> FALSE]

Schema(tables, relationships, constraints, enums) ==
    [ParseResult(SQLParser_init) EXCEPT !.tables = tables, !.relationships = relationships,
                                        !.constraints = constraints, !.enums = enums]

TypeStrings ==
    {<<"int">>, <<"INTEGER">>, <<"TEXT">>, <<"serial">>, <<"varchar", "(255)">>,
     <<"varchar", " ", "(255)">>, <<"numeric", "(10,2)">>, <<"decimal", "(10,2)">>,
     <<"char", "(5)">>, <<"hstore">>, <<"geometry">>, <<"Mood">>,
     <<"double", " ", "precision">>, <<"text", "[]">>, <<"varchar", "(255)", "[]">>,
     <<"mood", "[]">>, <<"integer">>, <<"varchar">>, <<"boolean">>, <<"inet">>,
     <<"point">>, <<"tsvector">>, <<"cube">>, <<"integer", "[]">>, <<"hstore", "[]">>}

ColumnNamesPool == <<"c1", "c2", "c3", "c4">>

TypeSchemas ==
    {Schema(<<[table_name |-> "t",
               columns |-> [i \in 1..Len(types) |-> Column(ColumnNamesPool[i], types[i])],
               constraints |-> <<>>]>>, <<>>, <<>>, enums) :
        types \in SeqsUpTo(TypeStrings, MaxTypeCols) \ {<<>>},
        enums \in {<<>>, <<[enum_name |-> "mood"]>>,
                   <<[enum_name |-> "Mood"], [enum_name |-> "cube"]>>}}

DecisionMaps == {[ARRAY_TYPE |-> "native"], [ARRAY_TYPE |-> "text_fallback"]}

\* a schema and a decisions map are handed to a new TypeMapper
LoadTypes ==
    /\ pc = "init"
    /\ \E schema \in TypeSchemas, d \in DecisionMaps :
          /\ doc' = schema
          /\ user_decisions' = d
    /\ schema_data' = doc'
    /\ pc' = "types_loaded"
    /\ hist' = <<>>
    /\ UNCHANGED <<cleaner, parser, mapper, handler, builder, input, calls, cleaned_sql>>

MapLoaded == pc = "types_loaded" /\ CallTransformTypes

\* transform_types on the schema the first call returned
MapAgain == pc = "transform_types" /\ Len(hist) = 1 /\ CallTransformTypes

NextTypes == LoadTypes \/ MapLoaded \/ MapAgain

SpecTypes == Init /\ [][NextTypes]_vars

----------------------------------------------------------------------------
(* RelationshipBuilder.build_relationships called directly *)

\* users (id primary key, email unique)
UsersTable ==
    [table_name |-> "users",
     columns |-> <<[Column("id", <<"int4">>) EXCEPT !.is_primary_key = TRUE,
                                                   !.is_unique = TRUE,
                                                   !.is_nullable = FALSE],
                   [Column("email", <<"text">>) EXCEPT !.is_unique = TRUE]>>,
     constraints |-> <<Constraint("users_pkey", "p", "users", <<"id">>, "", <<>>,
                                  <<"PRIMARY KEY">>)>>]

\* orders (id, user_id, a, b, unique (a, b))
OrdersTable ==
    [table_name |-> "orders",
     columns |-> <<Column("id", <<"int4">>), Column("user_id", <<"int4">>),
                   Column("a", <<"int4">>), Column("b", <<"int4">>)>>,
     constraints |-> <<Constraint("orders_ab", "u", "orders", <<"a", "b">>, "", <<>>,
                                  <<"UNIQUE">>)>>]

TableLists == {<<>>, <<UsersTable>>, <<UsersTable, OrdersTable>>}

CandidateRelationships ==
    {[Relationship("fk_user", "orders", <<"user_id">>, "users", <<"id">>)
         EXCEPT !.on_delete_action = "CASCADE"],
     [Relationship("fk_user2", "orders", <<"user_id">>, "users", <<"id">>)
         EXCEPT !.on_update_action = "SET NULL"],
     Relationship("fk_unusual", "orders", <<"user_id">>, "orders", <<"id">>),
     Relationship("fk_reverse", "users", <<"email">>, "orders", <<"id">>),
     Relationship("fk_ghost", "orders", <<"user_id">>, "ghost", <<"id">>),
     Relationship("fk_from_ghost", "ghost", <<"x">>, "users", <<"id">>),
     Relationship("fk_ghosts", "ghost", <<"x">>, "ghost2", <<"id">>),
     Relationship("fk_nocol", "orders", <<"nope">>, "users", <<"id">>),
     Relationship("fk_notarget", "orders", <<"user_id">>, "users", <<"nope">>),
     Relationship("fk_count", "orders", <<"a", "b">>, "users", <<"id">>),
     Relationship("fk_self", "users", <<"id">>, "users", <<"id">>),
     Relationship("fk_comp", "orders", <<"a", "b">>, "orders", <<"a", "b">>)}

RelationshipSchemas ==
    {Schema(tables, relationships, <<>>, <<>>) :
        tables \in TableLists,
        relationships \in SeqsUpTo(CandidateRelationships, MaxRels)}

\* candidate relationships and a table list are handed to a RelationshipBuilder
LoadRelationships ==
    /\ pc = "init"
    /\ \E schema \in RelationshipSchemas : doc' = schema
    /\ schema_data' = doc'
    /\ pc' = "relationships_loaded"
    /\ hist' = <<>>
    /\ UNCHANGED <<cleaner, parser, mapper, handler, builder, input, calls, cleaned_sql, user_decisions>>

BuildLoaded == pc = "relationships_loaded" /\ CallBuildRelationships

NextRel == LoadRelationships \/ BuildLoaded

SpecRel == Init /\ [][NextRel]_vars

----------------------------------------------------------------------------
(* ConstraintHandler.process_constraints called directly *)

\* the constraints a schema handed to process_constraints may carry, on the
\* table t (id, a): the supported types (with a unique constraint on two
\* columns), a CHECK, an exclusion constraint and one of a type the handler
\* does not know
ConstraintPool ==
    {Constraint("t_pkey", "p", "t", <<"id">>, "", <<>>, <<"PRIMARY KEY">>),
     Constraint("t_a_key", "u", "t", <<"a">>, "", <<>>, <<"UNIQUE">>),
     Constraint("t_id_a_key", "u", "t", <<"id", "a">>, "", <<>>, <<"UNIQUE">>),
     Constraint("t_fk", "f", "t", <<"a">>, "t", <<"id">>, <<"FOREIGN KEY", "DEFERRABLE">>),
     Constraint("t_chk", "c", "t", <<>>, "", <<>>, <<"CHECK">>),
     Constraint("t_excl", "x", "t", <<>>, "", <<>>, <<"EXCLUDE">>),
     Constraint("t_trig", "t", "t", <<>>, "", <<>>, <<"TRIGGER">>)}

ConstraintSchemas ==
    {Schema(<<[table_name |-> "t",
               columns |-> <<Column("id", <<"int4">>), Column("a", <<"int4">>)>>,
               constraints |-> table_constraints]>>, <<>>, standalone, <<>>) :
        table_constraints \in SeqsUpTo(ConstraintPool, MaxTableCons),
        standalone \in SeqsUpTo(ConstraintPool, MaxStandalone)}

\* a schema is handed to a new ConstraintHandler
LoadConstraints ==
    /\ pc = "init"
    /\ \E schema \in ConstraintSchemas : doc' = schema
    /\ schema_data' = doc'
    /\ pc' = "constraints_loaded"
    /\ hist' = <<>>
    /\ UNCHANGED <<cleaner, parser, mapper, handler, builder, input, calls, cleaned_sql, user_decisions>>

ProcessLoaded == pc = "constraints_loaded" /\ CallProcessConstraints

NextCons == LoadConstraints \/ ProcessLoaded

SpecCons == Init /\ [][NextCons]_vars

----------------------------------------------------------------------------
(* SQLCleaner.clean_dump called directly *)

\* the lines the dumps are made of
CleanerLines ==
    {<<>>,
     <<"CREATE", " ", "TABLE", " ", "t", " ", "(">>,
     <<" ", "c", " ", "int", " ", "DEFAULT", " ", "-5", ",">>,
     <<"c", " ", "int", " ", "default", " ", " ", "-1">>,
     <<"c", " ", "int", " ", "DEFAULT">>,
     <<" ", "-5", ",">>,
     <<"c", " ", "int", " ", "DEFAULT", " ", "'-5'", ",">>,
     <<"c", " ", "numeric", " ", "DEFAULT", " ", "-5", ".5">>,
     <<"id", " ", "uuid", " ", "DEFAULT", " ", "gen_random_uuid()", ",">>,
     <<"tags", " ", "text", "[]", ",">>,
     <<"ts", " ", "timestamp", " ", "with", " ", "time", " ", "zone", ",">>,
     <<"v", " ", "int", " ", "CHECK", " ", "(", "v", ">", "abs", "(", "x", ")", ")", ",">>,
     <<"v", " ", "int", " ", "CHECK", " ", "(", "v", ">", "0", ")">>,
     <<")", ";">>,
     <<"--", " ", "DEFAULT", " ", "-5">>,
     <<"SET", " ", "search_path", ";">>,
     <<"\\.">>,
     <<"ALTER", " ", "TABLE", " ", "t", " ", "OWNER", " ", "TO", " ", "me", ";">>,
     <<"ALTER", " ", "TABLE", " ", "ONLY", " ", "t", " ", "ALTER", " ", "c", " ",
       "SET", " ", "DEFAULT", " ", "-5", ";">>,
     <<"ALTER", " ", "TABLE", " ", "t", " ", "ALTER", " ", "c", " ",
       "SET", " ", "DEFAULT", " ", "-5", ";">>,
     <<"CREATE", " ", "FUNCTION", " ", "f", "(", "a", " ", "int", " ", "DEFAULT", " ", "-1",
       ")", ";">>,
     <<"DO", " ", "$$", " ", "DEFAULT", " ", "-5", " ", "$$", ";">>,
     <<"$$">>}

\* the raw dumps: at most MaxLines lines joined by line breaks
RawDumps == {JoinLines(lines) : lines \in SeqsUpTo(CleanerLines, MaxLines) \ {<<>>}}

\* cleaner.clean_dump(sql_content), r what the call returns
CleanCalled(sql_content, r) ==
    /\ cleaner' = r.cleaner
    /\ doc' = r.content
    /\ input' = sql_content
    /\ pc' = "clean_dump"
    /\ hist' = Append(hist, "clean_dump")
    /\ UNCHANGED <<parser, mapper, handler, builder, calls, cleaned_sql, user_decisions, schema_data>>

CallCleanDump(sql_content) == CleanCalled(sql_content, CleanDump(cleaner, sql_content))

\* a dump is cleaned by a new SQLCleaner
CleanRaw == pc = "init" /\ \E sql_content \in RawDumps : CallCleanDump(sql_content)

\* the cleaned text is handed to clean_dump of the same instance once more
CleanAgain == pc = "clean_dump" /\ Len(hist) = 1 /\ CallCleanDump(doc)

NextClean == CleanRaw \/ CleanAgain

SpecClean == Init /\ [][NextClean]_vars

----------------------------------------------------------------------------
(* FeatureDetector *)

\* a Feature record: the type, the severity and the location of what was found
Feature(feature_type, severity, location) ==
    [feature_type |-> feature_type, severity |-> severity, location |-> location]

GeometricTypes == {"point", "line", "lseg", "box", "path", "polygon", "circle"}
NetworkTypes == {"inet", "cidr", "macaddr", "macaddr8"}
RangeTypes == {"int4range", "int8range", "numrange", "tsrange", "tstzrange", "daterange"}
MultirangeTypes ==
    {"int4multirange", "int8multirange", "nummultirange", "tsmultirange",
     "tstzmultirange", "datemultirange"}
TextSearchTypes == {"tsvector", "tsquery"}
OtherPgTypes == {"xml", "money", "bytea", "bit", "varbit"}

\* base_type in <set>, for the lower-cased base type
BaseTypeIn(base_type, types) == \E w \in types : LowerStr(base_type) = <<w>>

\* _detect_postgresql_specific_types: one record per type set the base type is in
DetectPostgresqlSpecificTypes(base_type, location) ==
    (IF BaseTypeIn(base_type, GeometricTypes)
     THEN <<Feature("GEOMETRIC_TYPE", "HIGH", location)>> ELSE <<>>)
    \o (IF BaseTypeIn(base_type, NetworkTypes)
        THEN <<Feature("NETWORK_TYPE", "HIGH", location)>> ELSE <<>>)
    \o (IF BaseTypeIn(base_type, RangeTypes)
        THEN <<Feature("RANGE_TYPE", "HIGH", location)>> ELSE <<>>)
    \o (IF BaseTypeIn(base_type, MultirangeTypes)
        THEN <<Feature("MULTIRANGE_TYPE", "CRITICAL", location)>> ELSE <<>>)
    \o (IF BaseTypeIn(base_type, TextSearchTypes)
        THEN <<Feature("TEXT_SEARCH_TYPE", "HIGH", location)>> ELSE <<>>)
    \o (IF BaseTypeIn(base_type, OtherPgTypes)
        THEN <<Feature("POSTGRESQL_SPECIFIC_TYPE", "MEDIUM", location)>> ELSE <<>>)

\* 'gen_random_uuid()' in default_value
HasUuidFunction(default_value) ==
    default_value # None /\ "gen_random_uuid()" \in Range(default_value)

\* default_value.startswith('-') and default_value[1:].isdigit()
IsNegativeDefault(default_value) ==
    default_value # None /\ \E n \in NegativeIntegers : default_value = <<n>>

\* _detect_column_features: the records of one column, in the order of the tests
DetectColumnFeatures(column, table_name) ==
    (IF column.is_array_type
     THEN <<Feature("ARRAY_TYPE", "CRITICAL", <<table_name, column.column_name>>)>>
     ELSE <<>>)
    \o DetectPostgresqlSpecificTypes(column.base_type, <<table_name, column.column_name>>)
    \o (IF HasUuidFunction(column.default_value)
        THEN <<Feature("UUID_FUNCTION", "HIGH", <<table_name, column.column_name>>)>>
        ELSE <<>>)
    \o (IF IsNegativeDefault(column.default_value)
        THEN <<Feature("NEGATIVE_DEFAULT", "MEDIUM", <<table_name, column.column_name>>)>>
        ELSE <<>>)

\* the loop of _detect_table_features over the columns of one table
RECURSIVE DetectColumnsFeatures(_, _)
DetectColumnsFeatures(columns, table_name) ==
    IF columns = <<>> THEN <<>>
    ELSE DetectColumnFeatures(Head(columns), table_name)
         \o DetectColumnsFeatures(Tail(columns), table_name)

\* _detect_table_features.  The tables here carry no original_statement, and
\* no statement of the dumps has an INHERITS or PARTITION clause, so
\* _detect_table_level_features adds nothing
RECURSIVE DetectTableFeatures(_)
DetectTableFeatures(tables) ==
    IF tables = <<>> THEN <<>>
    ELSE DetectColumnsFeatures(Head(tables).columns, Head(tables).table_name)
         \o DetectTableFeatures(Tail(tables))

\* _detect_constraint_features: CHECK constraints, DEFERRABLE and EXCLUDE
\* definitions
RECURSIVE DetectConstraintFeatures(_)
DetectConstraintFeatures(constraints) ==
    IF constraints = <<>> THEN <<>>
    ELSE (IF Head(constraints).constraint_type = "c"
          THEN <<Feature("CHECK_CONSTRAINT", "HIGH",
                         <<Head(constraints).table_name, Head(constraints).constraint_name>>)>>
          ELSE <<>>)
         \o (IF "DEFERRABLE" \in Range(Head(constraints).definition)
             THEN <<Feature("DEFERRABLE_CONSTRAINT", "HIGH",
                            <<Head(constraints).table_name, Head(constraints).constraint_name>>)>>
             ELSE <<>>)
         \o (IF Head(constraints).definition # <<>> /\ Head(constraints).definition[1] = "EXCLUDE"
             THEN <<Feature("EXCLUDE_CONSTRAINT", "CRITICAL",
                            <<Head(constraints).table_name, Head(constraints).constraint_name>>)>>
             ELSE <<>>)
         \o DetectConstraintFeatures(Tail(constraints))

\* _detect_relationship_features: CASCADE actions and composite foreign keys
RECURSIVE DetectRelationshipFeatures(_)
DetectRelationshipFeatures(relationships) ==
    IF relationships = <<>> THEN <<>>
    ELSE (IF \/ Head(relationships).on_delete_action = "CASCADE"
             \/ Head(relationships).on_update_action = "CASCADE"
          THEN <<Feature("CASCADE_ACTION", "MEDIUM",
                         <<Head(relationships).source_table, Head(relationships).target_table>>)>>
          ELSE <<>>)
         \o (IF Len(Head(relationships).source_columns) > 1
             THEN <<Feature("COMPOSITE_FOREIGN_KEY", "HIGH",
                            <<Head(relationships).source_table, Head(relationships).target_table>>)>>
             ELSE <<>>)
         \o DetectRelationshipFeatures(Tail(relationships))

\* everything _add_feature is given during one detect_features call; the
\* index records here carry no definition, so _detect_index_features adds nothing
DetectedFeatures(schema_data_arg) ==
    DetectTableFeatures(schema_data_arg.tables)
    \o DetectConstraintFeatures(schema_data_arg.constraints)
    \o DetectRelationshipFeatures(schema_data_arg.relationships)

\* detect_features: both lists are emptied first, so the result depends on the
\* schema only; an issue is a feature of severity HIGH or CRITICAL
DetectFeatures(schema_data_arg) ==
    [detected_features |-> DetectedFeatures(schema_data_arg),
     compatibility_issues |->
         SelectSeq(DetectedFeatures(schema_data_arg),
                   LAMBDA f : f.severity \in {"HIGH", "CRITICAL"}),
     critical_issues |->
         SelectSeq(DetectedFeatures(schema_data_arg), LAMBDA f : f.severity = "CRITICAL")]

\* FeatureDetector().detect_features(schema)
CallDetectFeatures ==
    /\ pc = "extract_schema_info"
    /\ doc' = DetectFeatures(doc)
    /\ input' = doc
    /\ pc' = "detect_features"
    /\ hist' = Append(hist, "detect_features")
    /\ UNCHANGED <<cleaner, parser, mapper, handler, builder, calls, cleaned_sql,
                   user_decisions, schema_data>>

----------------------------------------------------------------------------
(* The flows from the raw text: clean_dump, parse_sql_dump, then transform_types
   (the command line) or extract_schema_info and detect_features *)

\* the declared types of the raw dumps, each with what follows it in the
\* column definition
DeclaredTypes ==
    {<<"serial", " ", "PRIMARY", " ", "KEY">>, <<"text", "[]">>, <<"integer", "[]">>,
     <<"varchar", "(255)", "[]">>, <<"double", " ", "precision">>,
     <<"character", " ", "varying", "(255)">>, <<"point">>, <<"text">>,
     <<"int", " ", "DEFAULT", " ", "-5">>,
     <<"uuid", " ", "DEFAULT", " ", "gen_random_uuid()">>}

ColumnNamesOfDump == <<"id", "tags", "extra">>

\* CREATE TABLE t (id <type>, tags <type>, ...); on one line
RawDumpsOfColumns ==
    {<<Stmt("t", "CREATE TABLE", "t", "",
            [i \in 1..Len(types) |->
                ColFrag(ColumnNamesOfDump[i], types[i],
                        IF ContainsTokens(types[i], <<"PRIMARY", " ", "KEY">>)
                        THEN {"PRIMARY KEY"} ELSE {})],
            "none")>> :
        types \in SeqsUpTo(DeclaredTypes, MaxDeclaredCols) \ {<<>>}}

\* clean_dump on a dump whose statements stand on one line each and match
\* no removal rule: every line is kept, and _clean_line rewrites the text of
\* each column definition
CleanStatement(stmt) ==
    [stmt EXCEPT !.frags = [i \in 1..Len(stmt.frags) |->
                               [stmt.frags[i] EXCEPT !.typ = CleanLine(@)]]]

CleanStatements(dump) == [k \in 1..Len(dump) |-> CleanStatement(dump[k])]

CallCleanStatements(dump) ==
    /\ pc = "init"
    /\ cleaner' = [cleaner EXCEPT !.line_mapping = [k \in 1..Len(dump) |-> k]]
    /\ cleaned_sql' = CleanStatements(dump)
    /\ doc' = cleaned_sql'
    /\ input' = dump
    /\ pc' = "clean_dump"
    /\ hist' = Append(hist, "clean_dump")
    /\ UNCHANGED <<parser, mapper, handler, builder, calls, user_decisions, schema_data>>

CleanColumns == \E dump \in RawDumpsOfColumns : CallCleanStatements(dump)
ParseCleaned == pc = "clean_dump" /\ ParseCalled(cleaned_sql)
MapParsed == pc = "parse_sql_dump" /\ CallTransformTypes

ExtractParsed == Extract
DetectExtracted == CallDetectFeatures

NextFlow == CleanColumns \/ ParseCleaned \/ MapParsed \/ ExtractParsed \/ DetectExtracted

SpecFlow == Init /\ [][NextFlow]_vars

----------------------------------------------------------------------------
(* Dumps of CREATE TABLE and ALTER TABLE ... ADD COLUMN statements *)

\* ALTER TABLE a ADD COLUMN id int;
StmtAltColId ==
    Stmt("alt_col_id", "ALTER TABLE", "a", "ADD COLUMN", <<ColFrag("id", <<"int">>, {})>>, "none")

\* ALTER TABLE a ADD COLUMN IF NOT EXISTS c int;  the text after ADD COLUMN
\* is read as a column definition: the name is its first word, the type the
\* word after it
StmtAltColIfNotExists ==
    Stmt("alt_col_if_not_exists", "ALTER TABLE", "a", "ADD COLUMN",
         <<ColFrag("IF", <<"NOT", " ", "EXISTS", " ", "c", " ", "int">>, {})>>, "none")

ColumnStatements ==
    {StmtA1, StmtA2, StmtB, StmtAltCol, StmtAltColId, StmtAltColIfNotExists, StmtBadTable}

ColumnDumps == DistinctSeqsUpTo(ColumnStatements, MaxColumnStmts)

ParseColumns == \E dump \in ColumnDumps : CallParseSqlDump(dump)

NextColumns == ParseColumns \/ Extract \/ MapTypes \/ Constrain

SpecColumns == Init /\ [][NextColumns]_vars

----------------------------------------------------------------------------
(* The text of a CREATE TABLE statement: its body and the fragments of it *)

\* Here the text of a statement is a sequence of tokens in which a token is a
\* word (word characters only), a blank, or a punctuation mark or operator.

\* the tokens that have no word character
Punctuation == {" ", ",", "(", ")", ";", "&&", ">", "="}

\* the token is matched by \w+
IsWordToken(w) == w \notin Punctuation

\* what may follow the closing parenthesis of the body, after white space:
\* WITH or TABLESPACE in any case, with anything after it, or a semicolon
BodyEnds == {"WITH", "with", "WITHOUT", "without", "TABLESPACE", "tablespace", ";"}

\* the parenthesis at which the non-greedy (.*?)\) stops: the first closing
\* parenthesis at or after i that is followed, after any white space, by one
\* of BodyEnds or by the end of the text; 0 when there is none
RECURSIVE BodyEnd(_, _)
BodyEnd(t, i) ==
    IF i > Len(t) THEN 0
    ELSE IF /\ t[i] = ")"
            /\ (SkipSpaces(t, i + 1) > Len(t) \/ t[SkipSpaces(t, i + 1)] \in BodyEnds)
    THEN i
    ELSE BodyEnd(t, i + 1)

\* the group of re.search(r'CREATE\s+TABLE\s+[^(]+\((.*?)\)\s*(?:WITH|TABLESPACE|;|$)')
\* on a statement that starts with CREATE TABLE and a name: the text between
\* the first opening parenthesis and BodyEnd; None without a match
ColumnsSection(statement) ==
    IF \/ Find(statement, "(", 1) = 0
       \/ BodyEnd(statement, Find(statement, "(", 1) + 1) = 0
    THEN None
    ELSE SubSeq(statement, Find(statement, "(", 1) + 1,
                BodyEnd(statement, Find(statement, "(", 1) + 1) - 1)

\* the change of paren_depth a character makes
DepthChange(w) == IF w = "(" THEN 1 ELSE IF w = ")" THEN -1 ELSE 0

\* _split_column_definitions_simple, from the i-th character on: a comma at
\* depth zero ends the current part; what is left at the end is a part unless
\* it is empty or white space
RECURSIVE SplitSimpleFrom(_, _, _, _)
SplitSimpleFrom(t, i, current_part, paren_depth) ==
    IF i > Len(t)
    THEN (IF Strip(current_part) # <<>> THEN <<current_part>> ELSE <<>>)
    ELSE IF t[i] = "," /\ paren_depth = 0
    THEN <<current_part>> \o SplitSimpleFrom(t, i + 1, <<>>, paren_depth)
    ELSE SplitSimpleFrom(t, i + 1, Append(current_part, t[i]), paren_depth + DepthChange(t[i]))

SplitColumnDefinitionsSimple(columns_section) == SplitSimpleFrom(columns_section, 1, <<>>, 0)

\* the keyword at k of constraint_pattern, FOREIGN\s+KEY|PRIMARY\s+KEY|UNIQUE|CHECK:
\* the position after it, 0 when the text has no such keyword at k
KeywordEnd(t, k) ==
    IF k > Len(t) THEN 0
    ELSE IF t[k] \in {"UNIQUE", "CHECK"} THEN k + 1
    ELSE IF /\ t[k] \in {"FOREIGN", "PRIMARY"}
            /\ SkipSpaces(t, k + 1) > k + 1
            /\ SkipSpaces(t, k + 1) <= Len(t)
            /\ t[SkipSpaces(t, k + 1)] = "KEY"
    THEN SkipSpaces(t, k + 1) + 1
    ELSE 0

\* CONSTRAINT\s+\w+\s+(?:FOREIGN\s+KEY|PRIMARY\s+KEY|UNIQUE|CHECK) at i, the name
\* at n: the position after the keyword, 0 when the pattern does not start at i
ConstraintHeadAt(t, i, n) ==
    IF /\ t[i] = "CONSTRAINT"
       /\ n > i + 1 /\ n <= Len(t) /\ IsWordToken(t[n])
       /\ SkipSpaces(t, n + 1) > n + 1
    THEN KeywordEnd(t, SkipSpaces(t, n + 1))
    ELSE 0

ConstraintHeadEnd(t, i) == ConstraintHeadAt(t, i, SkipSpaces(t, i + 1))

\* \w+\s+\w+ at j: a word, white space, a word character
TwoWordsAt(t, j) ==
    /\ j <= Len(t) /\ IsWordToken(t[j])
    /\ SkipSpaces(t, j + 1) > j + 1
    /\ SkipSpaces(t, j + 1) <= Len(t)
    /\ IsWordToken(t[SkipSpaces(t, j + 1)])

\* the lookahead (?=,\s*(?:CONSTRAINT|\w+\s+\w+|$)|\s*$) before the e-th
\* character: only white space is left, or a comma that is followed by
\* CONSTRAINT, by two words, or by nothing
LookaheadHolds(t, e) ==
    \/ SkipSpaces(t, e) > Len(t)
    \/ /\ e <= Len(t) /\ t[e] = ","
       /\ \/ SkipSpaces(t, e + 1) > Len(t)
          \/ t[SkipSpaces(t, e + 1)] = "CONSTRAINT"
          \/ TwoWordsAt(t, SkipSpaces(t, e + 1))

\* where the non-greedy .*? of constraint_pattern stops: the first position
\* at or after e at which the lookahead holds; it takes no account of
\* parentheses
RECURSIVE ConstraintMatchEnd(_, _)
ConstraintMatchEnd(t, e) ==
    IF e > Len(t) \/ LookaheadHolds(t, e) THEN e ELSE ConstraintMatchEnd(t, e + 1)

\* re.finditer(constraint_pattern, columns_section): the matches from the
\* i-th character on, each as <<first character, character after the last>>
RECURSIVE ConstraintMatches(_, _)
ConstraintMatches(t, i) ==
    IF i > Len(t) THEN <<>>
    ELSE IF ConstraintHeadEnd(t, i) # 0
    THEN <<<<i, ConstraintMatchEnd(t, ConstraintHeadEnd(t, i))>>>>
         \o ConstraintMatches(t, ConstraintMatchEnd(t, ConstraintHeadEnd(t, i)))
    ELSE ConstraintMatches(t, i + 1)

\* str.rstrip(',') and str.lstrip(',')
RECURSIVE RStripCommas(_)
RStripCommas(t) ==
    IF t # <<>> /\ t[Len(t)] = "," THEN RStripCommas(SubSeq(t, 1, Len(t) - 1)) ELSE t

RECURSIVE LStripCommas(_)
LStripCommas(t) == IF t # <<>> /\ Head(t) = "," THEN LStripCommas(Tail(t)) ELSE t

\* p.strip() for p in parts if p.strip()
StrippedParts(parts) ==
    SelectSeq([k \in 1..Len(parts) |-> Strip(parts[k])], LAMBDA p : p # <<>>)

\* the loop of _split_column_definitions over the matches: the text before a
\* match is split by the simple rule, the match is one part, and the text
\* after the last match is split by the simple rule
RECURSIVE PartsOfMatches(_, _, _)
PartsOfMatches(t, matches, last_end) ==
    IF matches = <<>>
    THEN StrippedParts(SplitColumnDefinitionsSimple(
             LStripCommas(Strip(SubSeq(t, last_end, Len(t))))))
    ELSE StrippedParts(SplitColumnDefinitionsSimple(
             RStripCommas(Strip(SubSeq(t, last_end, matches[1][1] - 1)))))
         \o StrippedParts(<<SubSeq(t, matches[1][1], matches[1][2] - 1)>>)
         \o PartsOfMatches(t, Tail(matches), matches[1][2])

\* _split_column_definitions
SplitColumnDefinitions(columns_section) ==
    IF ConstraintMatches(columns_section, 1) = <<>>
    THEN SplitColumnDefinitionsSimple(columns_section)
    ELSE PartsOfMatches(columns_section, ConstraintMatches(columns_section, 1), 1)

\* part.upper().startswith(keyword) for the keywords _extract_columns skips
StartsWithKeyword(part, keyword) ==
    CASE keyword = "PRIMARY KEY" -> MatchesAt(part, 1, <<"PRIMARY", " ", "KEY">>)
      [] keyword = "FOREIGN KEY" -> MatchesAt(part, 1, <<"FOREIGN", " ", "KEY">>)
      [] OTHER -> MatchesAt(part, 1, <<keyword>>)

\* what _extract_columns and _parse_column_definition read in the text of one
\* part: the constraint keyword it starts with or else its first word, the
\* text after that, and the flags found anywhere in it
TextFragment(part) ==
    ColFrag(IF \E kw \in ConstraintKeywords : StartsWithKeyword(part, kw)
            THEN CHOOSE kw \in ConstraintKeywords : StartsWithKeyword(part, kw)
            ELSE part[1],
            LStrip(Tail(part)),
            {w \in {"NOT NULL", "PRIMARY KEY", "UNIQUE"} :
                \/ w = "NOT NULL" /\ ContainsTokens(part, <<"NOT", " ", "NULL">>)
                \/ w = "PRIMARY KEY" /\ ContainsTokens(part, <<"PRIMARY", " ", "KEY">>)
                \/ w = "UNIQUE" /\ ContainsTokens(part, <<"UNIQUE">>)})

\* _extract_columns on the text of a statement: no column without a body;
\* else the parts of the body, stripped, the empty ones left out, each read
\* as a fragment
ExtractColumnsOfText(statement) ==
    IF ColumnsSection(statement) = None THEN <<>>
    ELSE ExtractColumns(
             [k \in 1..Len(StrippedParts(SplitColumnDefinitions(ColumnsSection(statement)))) |->
                 TextFragment(StrippedParts(SplitColumnDefinitions(ColumnsSection(statement)))[k])])

\* the column and constraint definitions the bodies are made of
TextA == <<"a", " ", "integer">>
TextB == <<"b", " ", "numeric", "(", "10", ",", "2", ")">>
TextC == <<"c", " ", "timestamp", "(", "6", ")", " ", "with", " ", "time", " ", "zone">>
TextD == <<"d", " ", "text">>
TextPk ==
    <<"CONSTRAINT", " ", "pk", " ", "PRIMARY", " ", "KEY", " ", "(", "a", ",", " ", "b", ")">>
TextNamedCheck ==
    <<"CONSTRAINT", " ", "ck", " ", "CHECK", " ",
      "(", "f", "(", "a", ",", " ", "b", " ", "IS", " ", "NULL", ")", ")">>
TextCheck == <<"CHECK", " ", "(", "a", " ", ">", " ", "0", ")">>
TextExclude ==
    <<"EXCLUDE", " ", "USING", " ", "gist", " ",
      "(", "tsrange", "(", "a", ",", " ", "b", ")", " ", "WITH", " ", "&&", ")">>

Definitions ==
    {TextA, TextB, TextC, TextD, TextPk, TextNamedCheck, TextCheck, TextExclude}

\* ', '.join(definitions)
RECURSIVE JoinDefinitions(_)
JoinDefinitions(definitions) ==
    IF definitions = <<>> THEN <<>>
    ELSE IF Len(definitions) = 1 THEN definitions[1]
    ELSE definitions[1] \o <<",", " ">> \o JoinDefinitions(Tail(definitions))

\* the bodies: up to MaxDefinitions different definitions
Bodies == {JoinDefinitions(q) : q \in DistinctSeqsUpTo(Definitions, MaxDefinitions) \ {<<>>}}

\* what stands after the body: the semicolon, with storage parameters or without
StatementEnds ==
    {<<")", ";">>, <<")", " ", "WITH", " ", "(", "fillfactor", "=", "70", ")", ";">>}

\* CREATE TABLE t (<body>)[ WITH (fillfactor=70)];
CreateTableTexts ==
    {<<"CREATE", " ", "TABLE", " ", "t", " ", "(">> \o body \o end :
        body \in Bodies, end \in StatementEnds}

\* a text is handed to a method of a new SQLParser, which leaves the
\* instance as it is and returns a list
TextLoaded(text, state) ==
    /\ pc = "init"
    /\ input' = text
    /\ pc' = state
    /\ UNCHANGED <<cleaner, parser, mapper, handler, builder, doc, hist, calls, cleaned_sql,
                   user_decisions, schema_data>>

TextCalled(result, method) ==
    /\ doc' = result
    /\ pc' = method
    /\ hist' = Append(hist, method)
    /\ UNCHANGED <<cleaner, parser, mapper, handler, builder, input, calls, cleaned_sql,
                   user_decisions, schema_data>>

LoadBody == \E body \in Bodies : TextLoaded(body, "body_loaded")
SplitLoaded ==
    pc = "body_loaded" /\ TextCalled(SplitColumnDefinitions(input), "_split_column_definitions")

LoadStatement == \E statement \in CreateTableTexts : TextLoaded(statement, "statement_loaded")
ExtractLoaded ==
    pc = "statement_loaded" /\ TextCalled(ExtractColumnsOfText(input), "_extract_columns")

NextText == LoadBody \/ SplitLoaded \/ LoadStatement \/ ExtractLoaded

SpecText == Init /\ [][NextText]_vars

----------------------------------------------------------------------------
(* Claims about parse_sql_dump *)

WellFormed(stmt) == stmt.fault = "none"

\* what a statement leaves in the result when it is parsed
StatementParsed(stmt, result) ==
    CASE stmt.head = "CREATE TABLE" -> stmt.name \in TableNames(result.tables)
      [] stmt.head = "CREATE INDEX" ->
            \E i \in 1..Len(result.indexes) : result.indexes[i].index_name = stmt.name
      [] stmt.head = "CREATE SEQUENCE" ->
            \E i \in 1..Len(result.sequences) : result.sequences[i].sequence_name = stmt.name
      [] stmt.head = "CREATE TYPE" ->
            \E i \in 1..Len(result.enums) : result.enums[i].enum_name = stmt.name
      [] stmt.head = "ALTER TABLE" /\ stmt.clause = "ADD CONSTRAINT" ->
            \E i \in 1..Len(result.constraints) :
                result.constraints[i].constraint_name = stmt.frags[1].cname
      [] OTHER -> TRUE

\* C1: after parse_sql_dump, a statement that failed has left an entry in
\* parsing_errors, and every well-formed statement of the dump, before and
\* after a failing one, has been parsed: its table, constraint, index,
\* sequence or enum is in the result
MalformedStatementNeverAborts ==
    pc = "parse_sql_dump" =>
        /\ (\E i \in 1..Len(input) : ~WellFormed(input[i])) => doc.parsing_errors # <<>>
        /\ \A i \in 1..Len(input) : WellFormed(input[i]) => StatementParsed(input[i], doc)

\* C2: the result of parse_sql_dump, transform_types and process_constraints
\* on an instance that served earlier conversions equals the result of the
\* same call on a fresh instance
NoStateCarriesOver ==
    /\ pc = "parse_sql_dump" => doc = ParseResult(ParseSqlDump(SQLParser_init, input))
    /\ pc = "transform_types" =>
          doc = TransformTypes(TypeMapper_init, input, user_decisions).schema
    /\ pc = "process_constraints" =>
          doc = ProcessConstraints(ConstraintHandler_init, input).schema

\* the i-th statement is a CREATE TABLE the parser accepted
CreatesTable(dump, i) == dump[i].head = "CREATE TABLE" /\ WellFormed(dump[i])

\* ... and the first such statement for its table name
FirstCreateTable(dump, i) ==
    /\ CreatesTable(dump, i)
    /\ \A j \in 1..(i - 1) : ~(CreatesTable(dump, j) /\ dump[j].name = dump[i].name)

OnlyCreateTable(dump) == \A i \in 1..Len(dump) : dump[i].head = "CREATE TABLE"

Surviving(schema) == TableConstraintsOf(schema.tables) \o schema.constraints

\* the relationship r is the one of a foreign-key constraint kept in the
\* schema, in a table or in the standalone list
KeptForeignKey(schema, r) ==
    \E k \in 1..Len(Surviving(schema)) :
        /\ Surviving(schema)[k].constraint_type = "f"
        /\ Surviving(schema)[k].constraint_name = r.constraint_name
        /\ Surviving(schema)[k].table_name = r.source_table
        /\ Surviving(schema)[k].columns = r.source_columns
        /\ Surviving(schema)[k].referenced_table = r.target_table
        /\ Surviving(schema)[k].referenced_columns = r.target_columns

\* C30: after parse_sql_dump every relationship of the result is the one of
\* a foreign-key constraint kept in the schema, so a CREATE TABLE rejected as
\* a duplicate has added no relationship
RejectedCreateTableAddsNothing ==
    pc = "parse_sql_dump" =>
        \A k \in 1..Len(doc.relationships) : KeptForeignKey(doc, doc.relationships[k])

\* the column an ALTER TABLE ... ADD COLUMN statement declares
DeclaredColumn(stmt) ==
    IF stmt.id = "alt_col_if_not_exists" THEN "c" ELSE stmt.frags[1].head

ColumnNameList(columns) == [j \in 1..Len(columns) |-> columns[j].column_name]

\* the columns the ADD COLUMN statements of the dump declare for the table,
\* in statement order, each once and none that is in seen
RECURSIVE AddedColumns(_, _, _)
AddedColumns(dump, table_name, seen) ==
    IF dump = <<>> THEN <<>>
    ELSE IF /\ Head(dump).head = "ALTER TABLE" /\ Head(dump).clause = "ADD COLUMN"
            /\ Head(dump).name = table_name
            /\ DeclaredColumn(Head(dump)) \notin seen
    THEN <<DeclaredColumn(Head(dump))>>
         \o AddedColumns(Tail(dump), table_name, seen \cup {DeclaredColumn(Head(dump))})
    ELSE AddedColumns(Tail(dump), table_name, seen)

\* C25: after parse_sql_dump the columns of each table are those of its
\* CREATE TABLE followed by the columns the ADD COLUMN statements for the
\* table declare and the table did not have, in statement order, wherever
\* the ALTER TABLE stands in the dump; an ADD COLUMN for a table that is not
\* in the result or for a column the table has changes nothing
AddColumnAppendsNewColumn ==
    pc = "parse_sql_dump" =>
        \A i \in 1..Len(input) :
            FirstCreateTable(input, i) =>
                \E k \in 1..Len(doc.tables) :
                    /\ doc.tables[k].table_name = input[i].name
                    /\ ColumnNameList(doc.tables[k].columns) =
                          ColumnNameList(ExtractColumns(input[i].frags))
                          \o AddedColumns(input, input[i].name,
                                          Range(ColumnNameList(ExtractColumns(input[i].frags))))

----------------------------------------------------------------------------
(* Claims about the stages after parsing *)

TableNameList(tables) == [i \in 1..Len(tables) |-> tables[i].table_name]

\* C4: extract_schema_info, transform_types and process_constraints each
\* return as many tables as they were given, with the same names
StagesKeepTables ==
    pc \in {"extract_schema_info", "transform_types", "process_constraints"} =>
        /\ Len(doc.tables) = Len(input.tables)
        /\ TableNameList(doc.tables) = TableNameList(input.tables)

\* all three stages have run on a schema of two tables
ThreeStagesOnTwoTables ==
    /\ pc = "process_constraints"
    /\ hist = <<"parse_sql_dump", "extract_schema_info", "transform_types",
                "process_constraints">>
    /\ Len(input.tables) = 2
    /\ \E i \in 1..2 : input.tables[i].constraints = <<>>

\* the names of the tables of the dump, each at its first accepted CREATE
\* TABLE statement, in statement order
RECURSIVE DeclaredTables(_, _)
DeclaredTables(dump, i) ==
    IF i > Len(dump) THEN <<>>
    ELSE (IF FirstCreateTable(dump, i) THEN <<dump[i].name>> ELSE <<>>)
         \o DeclaredTables(dump, i + 1)

\* the column names the ADD COLUMN statements of the dump for the table
\* give, as the parser reads them, in statement order
RECURSIVE AddedInOrder(_, _)
AddedInOrder(dump, table_name) ==
    IF dump = <<>> THEN <<>>
    ELSE (IF /\ Head(dump).head = "ALTER TABLE" /\ Head(dump).clause = "ADD COLUMN"
             /\ Head(dump).name = table_name
          THEN <<Head(dump).frags[1].head>> ELSE <<>>)
         \o AddedInOrder(Tail(dump), table_name)

\* s can be had from t by leaving elements out
RECURSIVE IsSubsequence(_, _)
IsSubsequence(s, t) ==
    IF s = <<>> THEN TRUE
    ELSE IF t = <<>> THEN FALSE
    ELSE IF Head(s) = Head(t) THEN IsSubsequence(Tail(s), Tail(t))
    ELSE IsSubsequence(s, Tail(t))

\* the columns of the first accepted CREATE TABLE for the name, in the order
\* of their definitions
RECURSIVE DeclaredColumns(_, _)
DeclaredColumns(dump, table_name) ==
    IF dump = <<>> THEN <<>>
    ELSE IF CreatesTable(dump, 1) /\ dump[1].name = table_name
    THEN ColumnNameList(ExtractColumns(dump[1].frags))
    ELSE DeclaredColumns(Tail(dump), table_name)

----------------------------------------------------------------------------
(* Claims about build_relationships *)

TableNamed(tables, name) == tables[TableLookup(tables, name)]

\* C5: every relationship build_relationships returns has its source and
\* target table in the table list, its source columns in the source table,
\* its target columns in the target table, and as many source as target columns
RelationshipsResolve ==
    pc = "build_relationships" =>
        \A k \in 1..Len(builder.built_relationships) :
            LET r == builder.built_relationships[k]
            IN  /\ r.source_table \in TableNames(input.tables)
                /\ r.target_table \in TableNames(input.tables)
                /\ Range(r.source_columns)
                       \subseteq ColumnNames(TableNamed(input.tables, r.source_table))
                /\ Range(r.target_columns)
                       \subseteq ColumnNames(TableNamed(input.tables, r.target_table))
                /\ Len(r.source_columns) = Len(r.target_columns)

SkipTypes == {builder.skipped_relationships[k].skip_type :
                 k \in 1..Len(builder.skipped_relationships)}

\* a relationship was returned although other candidates of the same call
\* named columns their tables do not have
BuiltDespiteMissingColumns ==
    /\ pc = "build_relationships"
    /\ builder.built_relationships # <<>>
    /\ SkipTypes \cap {"MISSING_SOURCE_COLUMNS", "MISSING_TARGET_COLUMNS",
                       "COLUMN_COUNT_MISMATCH"} # {}

Occurrences(seq, x) == Cardinality({i \in 1..Len(seq) : seq[i] = x})

SkipRecords(r, skip_type) ==
    Cardinality({k \in 1..Len(builder.skipped_relationships) :
                    /\ builder.skipped_relationships[k].relationship = r
                    /\ builder.skipped_relationships[k].skip_type = skip_type})

Returned(r) ==
    \E k \in 1..Len(builder.built_relationships) :
        /\ RelationshipSignature(builder.built_relationships[k]) = RelationshipSignature(r)
        /\ builder.built_relationships[k].constraint_name = r.constraint_name

\* C6 as stated: a candidate whose target table is not in the schema is not
\* returned and has exactly one MISSING_TARGET_TABLE skip record
MissingTargetReported ==
    pc = "build_relationships" =>
        \A i \in 1..Len(input.relationships) :
            input.relationships[i].target_table \notin TableNames(input.tables) =>
                /\ ~Returned(input.relationships[i])
                /\ SkipRecords(input.relationships[i], "MISSING_TARGET_TABLE")
                       = Occurrences(input.relationships, input.relationships[i])

\* C6 as amended: a candidate whose source table is in the schema and whose
\* target table is not is not returned and has exactly one
\* MISSING_TARGET_TABLE skip record
MissingTargetReportedWhenSourceExists ==
    pc = "build_relationships" =>
        \A i \in 1..Len(input.relationships) :
            /\ input.relationships[i].source_table \in TableNames(input.tables)
            /\ input.relationships[i].target_table \notin TableNames(input.tables)
            => /\ ~Returned(input.relationships[i])
               /\ SkipRecords(input.relationships[i], "MISSING_TARGET_TABLE")
                      = Occurrences(input.relationships, input.relationships[i])

\* a candidate with a source table of the schema and a target table outside
\* it went through build_relationships
MissingTargetSkipped ==
    /\ pc = "build_relationships"
    /\ \E i \in 1..Len(input.relationships) :
          /\ input.relationships[i].source_table \in TableNames(input.tables)
          /\ input.relationships[i].target_table \notin TableNames(input.tables)
    /\ "MISSING_TARGET_TABLE" \in SkipTypes

\* a column set is unique in a table: it is the set of the table's primary-key
\* columns, or the column set of one of its unique constraints, or one column
\* flagged unique or primary key
UniqueIn(columns, table) ==
    \/ Range(columns) = {c \in ColumnNames(table) \cup Range(columns) :
                            \E n \in 1..Len(table.constraints) :
                                /\ table.constraints[n].constraint_type = "p"
                                /\ c \in Range(table.constraints[n].columns)}
    \/ \E n \in 1..Len(table.constraints) :
          /\ table.constraints[n].constraint_type = "u"
          /\ Range(table.constraints[n].columns) = Range(columns)
    \/ /\ Len(columns) = 1
       /\ \E n \in 1..Len(table.columns) :
             /\ table.columns[n].column_name = columns[1]
             /\ table.columns[n].is_unique \/ table.columns[n].is_primary_key

\* a candidate that passes the validation of build_relationships
ValidCandidate(c, tables) ==
    /\ c.source_table \in TableNames(tables)
    /\ c.target_table \in TableNames(tables)
    /\ Range(c.source_columns) \subseteq ColumnNames(TableNamed(tables, c.source_table))
    /\ Range(c.target_columns) \subseteq ColumnNames(TableNamed(tables, c.target_table))
    /\ Len(c.source_columns) = Len(c.target_columns)

SourceUnique(c, tables) == UniqueIn(c.source_columns, TableNamed(tables, c.source_table))
TargetUnique(c, tables) == UniqueIn(c.target_columns, TableNamed(tables, c.target_table))

\* the warnings of one kind logged for a pair of tables
WarningsOf(kind, source_table, target_table) ==
    {k \in 1..Len(builder.relationship_warnings) :
        /\ builder.relationship_warnings[k].kind = kind
        /\ builder.relationship_warnings[k].source_table = source_table
        /\ builder.relationship_warnings[k].target_table = target_table}

\* the valid candidates between two tables, by position in the input
ValidBetween(source_table, target_table) ==
    {i \in 1..Len(input.relationships) :
        /\ ValidCandidate(input.relationships[i], input.tables)
        /\ input.relationships[i].source_table = source_table
        /\ input.relationships[i].target_table = target_table}

\* C19: a returned relationship is one-to-one exactly when its source and
\* its target column set are both unique, many-to-one otherwise, and it has
\* the ON DELETE / ON UPDATE actions of its candidate; every valid candidate
\* with neither side unique has its 'unusual foreign key' warning, and such
\* warnings come only from candidates whose target is not unique
CardinalityFollowsUniqueness ==
    pc = "build_relationships" =>
        /\ \A k \in 1..Len(builder.built_relationships) :
              /\ builder.built_relationships[k].relationship_type =
                    IF /\ SourceUnique(builder.built_relationships[k], input.tables)
                       /\ TargetUnique(builder.built_relationships[k], input.tables)
                    THEN "one-to-one" ELSE "many-to-one"
              /\ \E i \in 1..Len(input.relationships) :
                    /\ input.relationships[i].constraint_name =
                          builder.built_relationships[k].constraint_name
                    /\ RelationshipSignature(input.relationships[i]) =
                          RelationshipSignature(builder.built_relationships[k])
                    /\ input.relationships[i].on_delete_action =
                          builder.built_relationships[k].on_delete_action
                    /\ input.relationships[i].on_update_action =
                          builder.built_relationships[k].on_update_action
        /\ \A s \in TableNames(input.tables), t \in TableNames(input.tables) :
              /\ Cardinality(WarningsOf("unusual", s, t)) >=
                    Cardinality({i \in ValidBetween(s, t) :
                                    /\ ~SourceUnique(input.relationships[i], input.tables)
                                    /\ ~TargetUnique(input.relationships[i], input.tables)})
              /\ Cardinality(WarningsOf("unusual", s, t)) <=
                    Cardinality({i \in ValidBetween(s, t) :
                                    ~TargetUnique(input.relationships[i], input.tables)})

\* a foreign key from a non-unique column to a primary key, declared ON
\* DELETE CASCADE, was returned as many-to-one next to a one-to-one relationship
ManyToOneKeepsCascade ==
    /\ pc = "build_relationships"
    /\ \E k \in 1..Len(builder.built_relationships) :
          /\ builder.built_relationships[k].constraint_name = "fk_user"
          /\ builder.built_relationships[k].relationship_type = "many-to-one"
          /\ builder.built_relationships[k].on_delete_action = "CASCADE"
    /\ \E k \in 1..Len(builder.built_relationships) :
          builder.built_relationships[k].relationship_type = "one-to-one"

\* the signature of a relationship: source table, source columns in order,
\* target table, target columns in order
SignatureOf(r) == <<r.source_table, r.source_columns, r.target_table, r.target_columns>>

\* the valid candidates with the signature of r, by position in the input
ValidWithSignature(r) ==
    {i \in 1..Len(input.relationships) :
        /\ ValidCandidate(input.relationships[i], input.tables)
        /\ SignatureOf(input.relationships[i]) = SignatureOf(r)}

\* C20: no two returned relationships have the same signature; the one
\* returned for a signature is the first valid candidate with it in input
\* order; and one 'duplicate' warning is logged for each later valid candidate
NoDuplicateSignatures ==
    pc = "build_relationships" =>
        /\ \A k, l \in 1..Len(builder.built_relationships) :
              k # l => SignatureOf(builder.built_relationships[k])
                          # SignatureOf(builder.built_relationships[l])
        /\ \A i \in 1..Len(input.relationships) :
              ValidCandidate(input.relationships[i], input.tables) =>
                  \E k \in 1..Len(builder.built_relationships) :
                      /\ SignatureOf(builder.built_relationships[k])
                            = SignatureOf(input.relationships[i])
                      /\ \E f \in ValidWithSignature(input.relationships[i]) :
                            /\ \A g \in ValidWithSignature(input.relationships[i]) : f <= g
                            /\ builder.built_relationships[k].constraint_name
                                  = input.relationships[f].constraint_name
        /\ \A s \in TableNames(input.tables), t \in TableNames(input.tables) :
              Cardinality(WarningsOf("duplicate", s, t)) =
                  Cardinality(ValidBetween(s, t))
                  - Cardinality({SignatureOf(input.relationships[i]) : i \in ValidBetween(s, t)})

\* two valid candidates with one signature were given, fk_user before
\* fk_user2: fk_user alone was returned and one warning logged
DuplicateCandidateRemoved ==
    /\ pc = "build_relationships"
    /\ Len(input.relationships) = 2
    /\ input.relationships[1].constraint_name = "fk_user"
    /\ input.relationships[2].constraint_name = "fk_user2"
    /\ Len(builder.built_relationships) = 1
    /\ builder.built_relationships[1].constraint_name = "fk_user"
    /\ Cardinality(WarningsOf("duplicate", "orders", "users")) = 1

----------------------------------------------------------------------------
(* Claims about process_constraints *)

SupportedTypes == {"p", "u", "f"}

\* what identifies a constraint that was kept: DEFERRABLE may have been
\* removed from its definition
ConstraintKeys(constraints) ==
    [i \in 1..Len(constraints) |->
        <<constraints[i].constraint_name, constraints[i].constraint_type,
          constraints[i].table_name, constraints[i].columns>>]

Supported(constraints) ==
    SelectSeq(constraints, LAMBDA c : c.constraint_type \in SupportedTypes)

OnlySupported(constraints) ==
    \A i \in 1..Len(constraints) : constraints[i].constraint_type \in SupportedTypes

\* C7: after process_constraints every constraint of every table and of the
\* standalone list has type p, u or f, and the p, u and f constraints of the
\* input are all there, in order
OnlySupportedConstraintsRemain ==
    pc = "process_constraints" =>
        /\ \A i \in 1..Len(doc.tables) :
              /\ OnlySupported(doc.tables[i].constraints)
              /\ ConstraintKeys(doc.tables[i].constraints)
                     = ConstraintKeys(Supported(input.tables[i].constraints))
        /\ OnlySupported(doc.constraints)
        /\ ConstraintKeys(doc.constraints) = ConstraintKeys(Supported(input.constraints))

TypesOf(constraints) == {constraints[i].constraint_type : i \in 1..Len(constraints)}

\* a table with a constraint of an unknown type next to a supported one, and
\* a standalone CHECK, went through process_constraints
UnsupportedConstraintsProcessed ==
    /\ pc = "process_constraints"
    /\ Len(input.tables) = 1
    /\ TypesOf(input.tables[1].constraints) \cap SupportedTypes # {}
    /\ TypesOf(input.tables[1].constraints) \ (SupportedTypes \cup {"c"}) # {}
    /\ TypesOf(input.constraints) = {"c"}
    /\ Len(doc.tables[1].constraints) = 1

CheckCount(constraints) ==
    Cardinality({i \in 1..Len(constraints) : constraints[i].constraint_type = "c"})

CheckDropRecords(schema) ==
    Cardinality({k \in 1..Len(schema.dropped_constraints) :
                    schema.dropped_constraints[k].constraint_type = "CHECK"})

\* C8: after process_constraints there are as many CHECK drop records as the
\* parsed schema had CHECK constraints (in its tables and from ALTER TABLE),
\* also when the schema went through extract_schema_info
EveryCheckDroppedOnce ==
    pc = "process_constraints" =>
        CheckDropRecords(doc)
            = CheckCount(TableConstraintsOf(ParseSqlDump(SQLParser_init, cleaned_sql).tables))
              + CheckCount(ParseSqlDump(SQLParser_init, cleaned_sql).constraints)

HasCheck(stmt) == \E i \in 1..Len(stmt.frags) : "CHECK" \in stmt.frags[i].words

\* the text holds CREATE TABLE a (id int PRIMARY KEY, v int CHECK (v > 0));
\* and no other CHECK
OnlyInlineCheck(dump) ==
    /\ \E i \in 1..Len(dump) : dump[i] = StmtA1
    /\ \A i \in 1..Len(dump) : dump[i] # StmtA1 => ~HasCheck(dump[i])

\* C9: after parsing and constraint processing of a text whose only CHECK is
\* written inline in a column definition, no type-c constraint is left and
\* there is exactly one CHECK drop record
InlineCheckAccounted ==
    pc = "process_constraints" /\ OnlyInlineCheck(cleaned_sql) =>
        /\ CheckCount(TableConstraintsOf(doc.tables)) + CheckCount(doc.constraints) = 0
        /\ CheckDropRecords(doc) = 1

\* a surviving constraint of the given type on the table lists the column;
\* with single, only constraints on one column count
ListedIn(schema, type, table_name, column_name, single) ==
    \E k \in 1..Len(Surviving(schema)) :
        /\ Surviving(schema)[k].constraint_type = type
        /\ Surviving(schema)[k].table_name = table_name
        /\ column_name \in Range(Surviving(schema)[k].columns)
        /\ single => Len(Surviving(schema)[k].columns) = 1

\* C21: after process_constraints a column is flagged primary key exactly
\* when it was before or a surviving primary key of its table lists it, it is
\* nullable exactly when it was before and no surviving primary key lists it,
\* and it is flagged unique exactly when it was before or a surviving
\* primary key or unique constraint on that one column lists it; so a unique
\* constraint on several columns and a dropped constraint change no flag
ColumnFlagsFollowConstraints ==
    pc = "process_constraints" =>
        \A i \in 1..Len(doc.tables) :
            /\ Len(doc.tables[i].columns) = Len(input.tables[i].columns)
            /\ \A j \in 1..Len(doc.tables[i].columns) :
                  /\ doc.tables[i].columns[j].is_primary_key =
                        (\/ input.tables[i].columns[j].is_primary_key
                         \/ ListedIn(doc, "p", doc.tables[i].table_name,
                                     doc.tables[i].columns[j].column_name, FALSE))
                  /\ doc.tables[i].columns[j].is_nullable =
                        (/\ input.tables[i].columns[j].is_nullable
                         /\ ~ListedIn(doc, "p", doc.tables[i].table_name,
                                      doc.tables[i].columns[j].column_name, FALSE))
                  /\ doc.tables[i].columns[j].is_unique =
                        (\/ input.tables[i].columns[j].is_unique
                         \/ ListedIn(doc, "p", doc.tables[i].table_name,
                                     doc.tables[i].columns[j].column_name, TRUE)
                         \/ ListedIn(doc, "u", doc.tables[i].table_name,
                                     doc.tables[i].columns[j].column_name, TRUE))

\* a table with a primary key on id and a unique constraint on (id, a), and
\* a standalone CHECK that was dropped: id is a primary key, not nullable and
\* unique, a has no flag
FlagsAppliedAfterDrop ==
    /\ pc = "process_constraints"
    /\ Len(doc.tables) = 1
    /\ ListedIn(doc, "p", "t", "id", TRUE)
    /\ \E k \in 1..Len(Surviving(doc)) : Len(Surviving(doc)[k].columns) = 2
    /\ TypesOf(input.constraints) = {"c"}
    /\ Len(doc.dropped_constraints) = 1
    /\ doc.tables[1].columns[1].is_primary_key
    /\ ~doc.tables[1].columns[1].is_nullable
    /\ doc.tables[1].columns[1].is_unique
    /\ ~doc.tables[1].columns[2].is_unique
    /\ doc.tables[1].columns[2].is_nullable

----------------------------------------------------------------------------
(* Claims about transform_types *)

\* C10: transform_types on a schema it has transformed, with the same
\* decisions, changes no data_type and logs no transformation
TypeMappingIdempotent ==
    pc = "transform_types" /\ Len(hist) = 2 =>
        /\ \A i \in 1..Len(doc.tables) :
              \A j \in 1..Len(doc.tables[i].columns) :
                  doc.tables[i].columns[j].data_type = input.tables[i].columns[j].data_type
        /\ doc.type_transformations = input.type_transformations

\* the state after the first transform_types call on a loaded schema
FirstTransform == pc = "transform_types" /\ Len(hist) = 1

\* an original type of the form \w+\[\]: one identifier followed by brackets
IsPlainArray(t) == Len(t) = 2 /\ IsWord(t[1]) /\ t[2] = "[]"

\* the quoted form with a space before the brackets, "<elem> []"
QuotedSpacedArray(elem) == <<"\"", elem, " ", "[]", "\"">>

\* the transformation records logged for one column
TransformationsFor(schema, table_name, column_name) ==
    {k \in 1..Len(schema.type_transformations) :
        /\ schema.type_transformations[k].table = table_name
        /\ schema.type_transformations[k].column = column_name}

\* C11: under the native array strategy every column whose original type is
\* elem[] is mapped to "<elem> []", quoted and with a space before the
\* brackets, and one transformation record is logged for it
NativeArraysQuotedWithSpace ==
    FirstTransform /\ user_decisions.ARRAY_TYPE = "native" =>
        \A i \in 1..Len(doc.tables) :
            \A j \in 1..Len(doc.tables[i].columns) :
                IsPlainArray(input.tables[i].columns[j].data_type) =>
                    /\ doc.tables[i].columns[j].data_type =
                          QuotedSpacedArray(input.tables[i].columns[j].data_type[1])
                    /\ Cardinality(TransformationsFor(doc, doc.tables[i].table_name,
                                       doc.tables[i].columns[j].column_name)) = 1

\* C13: transform_types maps a serial column to integer and keeps the type
\* names integer, varchar and boolean as they are
BasicTypeNamesKept ==
    FirstTransform =>
        \A i \in 1..Len(doc.tables) :
            \A j \in 1..Len(doc.tables[i].columns) :
                /\ input.tables[i].columns[j].data_type = <<"serial">> =>
                      doc.tables[i].columns[j].data_type = <<"integer">>
                /\ input.tables[i].columns[j].data_type
                        \in {<<"integer">>, <<"varchar">>, <<"boolean">>} =>
                      doc.tables[i].columns[j].data_type = input.tables[i].columns[j].data_type

\* C14: a column of a PostgreSQL-specific type without DBML equivalent (inet,
\* point, tsvector) is mapped to text, and type_warnings has a warning for it
PostgresOnlyTypesBecomeText ==
    FirstTransform =>
        \A i \in 1..Len(doc.tables) :
            \A j \in 1..Len(doc.tables[i].columns) :
                input.tables[i].columns[j].data_type
                        \in {<<"inet">>, <<"point">>, <<"tsvector">>} =>
                    /\ doc.tables[i].columns[j].data_type = <<"text">>
                    /\ \E k \in 1..Len(doc.type_warnings) :
                          doc.type_warnings[k].pg_type = input.tables[i].columns[j].data_type

\* the parameter list a type text carries, <<>> when it has none
ParamsOf(t) == SelectSeq(t, IsParams)

\* C15: for a column that is no array and no enum, the mapped type carries
\* the parameters of the original type exactly when the base type is
\* varchar, char, numeric or decimal; for any other base type it has none
ParametersKeptForSizedTypes ==
    FirstTransform =>
        \A i \in 1..Len(doc.tables) :
            \A j \in 1..Len(doc.tables[i].columns) :
                /\ ~IsArrayType(input.tables[i].columns[j].data_type)
                /\ ParamsAt(input.tables[i].columns[j].data_type) > 0
                /\ LowerToken(input.tables[i].columns[j].data_type[1]) \notin EnumTypes(input)
                => ParamsOf(doc.tables[i].columns[j].data_type) =
                      IF LowerToken(input.tables[i].columns[j].data_type[1])
                            \in {"varchar", "char", "numeric", "decimal"}
                      THEN ParamsOf(input.tables[i].columns[j].data_type)
                      ELSE <<>>

\* the lower-cased base type of a column type, or of its element type when
\* it is an array
ElementBase(t) == LowerStr(ExtractTypeComponents(Strip(RemoveBrackets(t))).base_type)

\* the mapped type new approximates the type original by text: its base type
\* is unknown to the type map or one of the semantic-loss types, and text
\* stands in its place
ApproximatedByText(original, new) ==
    /\ new \in {<<"text">>, <<"\"", "text", "[]", "\"">>}
    /\ \/ ~InTypeMap(ElementBase(original))
       \/ ElementBase(original)[1] \in SemanticLossTypes

\* C16: whenever a base type (of a scalar column or of the elements of an
\* array column) is approximated by text, type_warnings has a warning naming
\* the original type and a transformation record is logged for the column
TextApproximationNeverSilent ==
    FirstTransform =>
        \A i \in 1..Len(doc.tables) :
            \A j \in 1..Len(doc.tables[i].columns) :
                ApproximatedByText(input.tables[i].columns[j].data_type,
                                   doc.tables[i].columns[j].data_type) =>
                    /\ \E k \in 1..Len(doc.type_warnings) :
                          doc.type_warnings[k].pg_type = input.tables[i].columns[j].data_type
                    /\ TransformationsFor(doc, doc.tables[i].table_name,
                                          doc.tables[i].columns[j].column_name) # {}

\* the base type of a column type is the name of an enum of the schema
IsEnumColumn(schema, t) ==
    /\ Len(ExtractTypeComponents(t).base_type) = 1
    /\ LowerToken(ExtractTypeComponents(t).base_type[1]) \in EnumTypes(schema)

\* C17: a column whose base type is the name of an enum declared in the
\* schema keeps that name through transform_types, whatever the type map
\* holds for the name, and no warning is produced for its type
EnumNamesProtected ==
    FirstTransform =>
        \A i \in 1..Len(doc.tables) :
            \A j \in 1..Len(doc.tables[i].columns) :
                IsEnumColumn(input, input.tables[i].columns[j].data_type) =>
                    /\ doc.tables[i].columns[j].data_type =
                          ExtractTypeComponents(input.tables[i].columns[j].data_type).base_type
                    /\ \A k \in 1..Len(doc.type_warnings) :
                          doc.type_warnings[k].pg_type # input.tables[i].columns[j].data_type

\* a column of the enum cube, a name the type map sends to text, has been
\* through transform_types next to a column of the enum Mood
EnumColumnsMapped ==
    /\ FirstTransform
    /\ Len(input.tables[1].columns) = 2
    /\ input.tables[1].columns[1].data_type = <<"cube">>
    /\ input.tables[1].columns[2].data_type = <<"Mood">>
    /\ IsEnumColumn(input, <<"cube">>)
    /\ IsEnumColumn(input, <<"Mood">>)
    /\ doc.tables[1].columns[1].data_type = <<"cube">>
    /\ doc.tables[1].columns[2].data_type = <<"Mood">>

----------------------------------------------------------------------------
(* Claims about the flow from the raw dump to the mapped types *)

\* the column named column_name of the table named table_name, as a list
ColumnsNamed(schema, table_name, column_name) ==
    {c \in UNION {Range(schema.tables[i].columns) :
                    i \in {k \in 1..Len(schema.tables) : schema.tables[k].table_name = table_name}} :
        c.column_name = column_name}

\* the flow has run to the end of transform_types
FlowDone ==
    pc = "transform_types" /\ hist = <<"clean_dump", "parse_sql_dump", "transform_types">>

\* C12: a column declared elem[] ends the flow clean_dump, parse_sql_dump,
\* transform_types (default decisions) with data_type "elem []": the quoting
\* of the preprocessor survives parsing and mapping
ArrayQuotingSurvivesFlow ==
    FlowDone =>
        \A k \in 1..Len(cleaned_sql) :
            \A i \in 1..Len(cleaned_sql[k].frags) :
                \A w \in {"text", "integer"} :
                    cleaned_sql[k].frags[i].typ = QuotedSpacedArray(w) =>
                        /\ ColumnsNamed(doc, cleaned_sql[k].name, cleaned_sql[k].frags[i].head) # {}
                        /\ \A c \in ColumnsNamed(doc, cleaned_sql[k].name,
                                                 cleaned_sql[k].frags[i].head) :
                              c.data_type = QuotedSpacedArray(w)

----------------------------------------------------------------------------
(* Claims about clean_dump *)

\* the text t has DEFAULT, white space and the unquoted literal n
NegativeDefaultIn(t, n) ==
    \E i \in 1..Len(t) :
        /\ UpperToken(t[i]) = "DEFAULT"
        /\ SkipWhitespace(t, i + 1) > i + 1
        /\ SkipWhitespace(t, i + 1) <= Len(t)
        /\ t[SkipWhitespace(t, i + 1)] = n

\* the text t has DEFAULT '<n>'
QuotedDefaultIn(t, n) == ContainsTokens(t, <<"DEFAULT", " ", Quoted(n)>>)

\* C18: when the input of clean_dump has DEFAULT followed by a negative
\* integer literal -N, the cleaned text has DEFAULT '-N', and no unquoted
\* DEFAULT -N is left anywhere in the cleaned text
NegativeDefaultsQuoted ==
    pc = "clean_dump" =>
        \A n \in NegativeIntegers :
            NegativeDefaultIn(input, n) =>
                /\ QuotedDefaultIn(doc, n)
                /\ \A m \in NegativeIntegers : ~NegativeDefaultIn(doc, m)

\* the line numbers the removal log has an entry for
LoggedLines == {cleaner.removed_statements[k].line_number :
                   k \in 1..Len(cleaner.removed_statements)}

\* the i-th line of the input is in the cleaned text, as _clean_line leaves it
KeptInCleanedText(i) == CleanLine(SplitLines(input)[i]) \in Range(SplitLines(doc))

\* C22: after clean_dump by a new SQLCleaner, a line of the input that is not
\* in the cleaned text has an entry in the removal log under its line number,
\* also when it went with a dollar-quoted body, a CREATE FUNCTION statement or
\* a CHECK with nested parentheses
EveryRemovalLogged ==
    pc = "clean_dump" /\ Len(hist) = 1 =>
        \A i \in 1..Len(SplitLines(input)) : KeptInCleanedText(i) \/ i \in LoggedLines

\* the lines of the text clean_dump returned; the empty text left when every
\* line was removed has none
CleanedTextLines ==
    IF doc = <<>> /\ cleaner.line_mapping = <<>> THEN <<>> ELSE SplitLines(doc)

\* C26: after clean_dump by a new SQLCleaner, line_mapping has one entry for
\* each line of the returned text, the k-th line of the returned text is the
\* cleaned form of the original line line_mapping[k], the entries increase
\* strictly, and every original line is mapped to or is in the removal log
LineMappingFollowsCleanedText ==
    pc = "clean_dump" /\ Len(hist) = 1 =>
        /\ Len(cleaner.line_mapping) = Len(CleanedTextLines)
        /\ \A k \in 1..Len(cleaner.line_mapping) :
              /\ cleaner.line_mapping[k] \in 1..Len(SplitLines(input))
              /\ k <= Len(CleanedTextLines)
                    => CleanedTextLines[k] = CleanLine(SplitLines(input)[cleaner.line_mapping[k]])
              /\ k > 1 => cleaner.line_mapping[k - 1] < cleaner.line_mapping[k]
        /\ \A i \in 1..Len(SplitLines(input)) :
              i \in Range(cleaner.line_mapping) \/ i \in LoggedLines

----------------------------------------------------------------------------
(* Claims about the schema a stage is given *)

\* C28: after transform_types and after process_constraints the tables of the
\* schema the caller passed (column data types, constraint lists, column
\* flags) are what they were when the call was made, so after both stages the
\* caller's original schema differs from the converted one where a type was
\* mapped or a constraint dropped
StagesLeaveInputUnchanged ==
    pc \in {"transform_types", "process_constraints"} /\ SharesTables =>
        /\ schema_data.tables = input.tables
        /\ (doc.type_transformations # <<>> \/ doc.dropped_constraints # <<>>)
              => schema_data.tables # doc.tables

----------------------------------------------------------------------------
(* Claims about the flow from the raw dump to the detected features *)

\* the flow has run to the end of detect_features
FeaturesDetected ==
    /\ pc = "detect_features"
    /\ hist = <<"clean_dump", "parse_sql_dump", "extract_schema_info", "detect_features">>

\* what the column definition says in the original dump
DeclaredAsArray(frag) == "[]" \in Range(frag.typ)
DeclaredWithUuidDefault(frag) == ContainsTokens(frag.typ, <<"DEFAULT", " ", "gen_random_uuid()">>)
DeclaredWithNegativeDefault(frag) == \E n \in NegativeIntegers : NegativeDefaultIn(frag.typ, n)

\* the detector has a record of this type for the column
Reported(result, feature_type, table_name, column_name) ==
    \E i \in 1..Len(result.detected_features) :
        /\ result.detected_features[i].feature_type = feature_type
        /\ result.detected_features[i].location = <<table_name, column_name>>

\* the features of one column definition of the original dump are reported
ColumnFeaturesReported(result, stmt, frag) ==
    /\ DeclaredAsArray(frag) => Reported(result, "ARRAY_TYPE", stmt.name, frag.head)
    /\ DeclaredWithUuidDefault(frag) => Reported(result, "UUID_FUNCTION", stmt.name, frag.head)
    /\ DeclaredWithNegativeDefault(frag) =>
          Reported(result, "NEGATIVE_DEFAULT", stmt.name, frag.head)

\* C27: after clean_dump, parse_sql_dump, extract_schema_info and
\* detect_features, every column the original dump declares as an array has
\* an ARRAY_TYPE record, every column whose default is gen_random_uuid() a
\* UUID_FUNCTION record, and every column with a negative integer default a
\* NEGATIVE_DEFAULT record
RewritesHideNoFeature ==
    FeaturesDetected =>
        \A dump \in RawDumpsOfColumns :
            CleanStatements(dump) = cleaned_sql =>
                \A k \in 1..Len(dump) :
                    \A i \in 1..Len(dump[k].frags) :
                        ColumnFeaturesReported(doc, dump[k], dump[k].frags[i])

----------------------------------------------------------------------------
(* Claims about the body of a CREATE TABLE statement *)

\* the pieces of a text between its commas at parenthesis depth zero, in order
RECURSIVE PiecesFrom(_, _, _, _)
PiecesFrom(t, i, piece, depth) ==
    IF i > Len(t) THEN <<piece>>
    ELSE IF t[i] = "," /\ depth = 0 THEN <<piece>> \o PiecesFrom(t, i + 1, <<>>, depth)
    ELSE PiecesFrom(t, i + 1, Append(piece, t[i]), depth + DepthChange(t[i]))

\* the pieces without a last piece of white space only, each without the
\* white space around it
PiecesAtDepthZero(t) ==
    [k \in 1..(IF Strip(PiecesFrom(t, 1, <<>>, 0)[Len(PiecesFrom(t, 1, <<>>, 0))]) = <<>>
               THEN Len(PiecesFrom(t, 1, <<>>, 0)) - 1
               ELSE Len(PiecesFrom(t, 1, <<>>, 0))) |->
        Strip(PiecesFrom(t, 1, <<>>, 0)[k])]

\* C24: the fragments _split_column_definitions gives for a body are, in
\* order and white space around them aside, the pieces of the body between
\* its commas at parenthesis depth zero: a comma ends a fragment if and only
\* if it stands at depth zero, and the fragments joined by commas are the body
FragmentsCutAtDepthZero ==
    pc = "_split_column_definitions" =>
        [k \in 1..Len(doc) |-> Strip(doc[k])] = PiecesAtDepthZero(input)

\* the parenthesis that closes the one opened before the i-th character
RECURSIVE ClosingParenthesis(_, _, _)
ClosingParenthesis(t, i, depth) ==
    IF i > Len(t) THEN 0
    ELSE IF t[i] = ")" /\ depth = 0 THEN i
    ELSE ClosingParenthesis(t, i + 1, depth + DepthChange(t[i]))

\* the text between the parenthesis after the table name and the one that
\* closes it
DeclaredBody(statement) ==
    SubSeq(statement, Find(statement, "(", 1) + 1,
           ClosingParenthesis(statement, Find(statement, "(", 1) + 1, 0) - 1)

\* a piece that does not start with a constraint keyword defines a column
DefinesColumn(piece) == ~\E kw \in ConstraintKeywords : StartsWithKeyword(piece, kw)

\* the names of the columns the pieces define, in order
RECURSIVE DefinedColumnNames(_)
DefinedColumnNames(pieces) ==
    IF pieces = <<>> THEN <<>>
    ELSE (IF DefinesColumn(Head(pieces)) THEN <<Head(pieces)[1]>> ELSE <<>>)
         \o DefinedColumnNames(Tail(pieces))

\* C29: _extract_columns gives exactly one column for every column
\* definition at parenthesis depth zero of the body, the body being the text
\* up to the parenthesis that closes the CREATE TABLE: no definition is lost
\* after a closing parenthesis that is followed by WITH, TABLESPACE or a
\* semicolon, and none is added
EveryColumnDefinitionYieldsOneColumn ==
    pc = "_extract_columns" =>
        ColumnNameList(doc) = DefinedColumnNames(PiecesAtDepthZero(DeclaredBody(input)))

====
